---------------------------- MODULE Spec2Model ----------------------------
(***************************************************************************)
(* A model of the glTF -> wg3d conversion code of wg3d_rs:                 *)
(*   src/src/convert/skin.rs       (skeleton builder)                      *)
(*   src/src/convert/animation.rs  (animation channel sampler)             *)
(*   src/src/convert/primitive.rs  (vertex attribute assembler)            *)
(*                                                                         *)
(* Every Rust function is a TLA+ operator of the same name, evaluated the  *)
(* way the code evaluates it.  A Rust Result is a record with tag "Ok" or  *)
(* "Err"; a panic (unwrap on None, index out of range, unimplemented!(),   *)
(* arithmetic overflow in a checked build) is the record with tag "Panic". *)
(***************************************************************************)
EXTENDS Integers, Sequences, FiniteSets, TLC

VARIABLES
    gltf,       \* the source asset: scene graph, skin, animation, primitive
    buffers,    \* the loaded buffers: uri -> bytes
    skins,      \* the list of Skin values built so far (input of the sampler)
    env,        \* the build: [overflow_checks |-> BOOLEAN]
    result,     \* what the last conversion call returned
    pc          \* "start" before the call, "done" after it

vars == <<gltf, buffers, skins, env, result, pc>>

----------------------------------------------------------------------------
(* Bounds of the model.                                                    *)

\* Width, in bits, of the joint index type.  The source uses u16 (16 bits);
\* the model is parametric in the width and is checked with a narrow index
\* type, so that joint lists at and beyond the index range are explicit
\* values: every comparison against u16::MAX below is against U16_MAX.
IndexBits == 3

\* Scene graphs and joint lists are enumerated in full over the nodes
\* 0 .. SmallNodes-1.
SmallNodes == 3

\* A time accessor holds at most MaxTimes timestamps, a value accessor of an
\* animation sampler at most MaxValues elements.
MaxTimes == 3
MaxValues == 5

\* A vertex attribute accessor holds at most MaxVertices elements.
MaxVertices == 2

\* A sparse accessor holds at most MaxSparse replaced elements.
MaxSparse == 2

\* An asset has at most MaxTextures textures.
MaxTextures == 2

----------------------------------------------------------------------------
(* Rust values.                                                            *)

\* Option<T>: None is the empty tuple, Some(v) the tuple of v.
None == <<>>
Some(v) == <<v>>
IsSome(o) == o # <<>>

Ok(v) == [tag |-> "Ok", val |-> v]
Err(e) == [tag |-> "Err", err |-> e]
Panic == [tag |-> "Panic"]
NoResult == [tag |-> "NoResult"]

IsOk(r) == r.tag = "Ok"
IsErr(r, e) == r.tag = "Err" /\ r.err = e

\* std::u16::MAX, at the width of the model.
U16_MAX == 2^IndexBits - 1

\* u16::max_value() of the quantised vertex attributes, at its full width.
U16_MAX_VALUE == 65535

\* std::i16::MAX and std::u8::MAX.
I16_MAX == 32767
U8_MAX == 255

Min(S) == CHOOSE x \in S : \A y \in S : x <= y

MinOf(a, b) == IF a <= b THEN a ELSE b

\* Iterator::find on a list: the position (from 1) of the first element
\* that passes Test, 0 when there is none.
RECURSIVE FindFrom(_, _, _)
FindFrom(s, Test(_), i) ==
    IF i > Len(s) THEN 0
    ELSE IF Test(s[i]) THEN i
    ELSE FindFrom(s, Test, i + 1)

Find(s, Test(_)) == FindFrom(s, Test, 1)

----------------------------------------------------------------------------
(* The scene graph, as the gltf crate presents it.                         *)

\* Node indices: enough nodes for a joint list two longer than the index
\* range.
Nodes == 0 .. (U16_MAX + 1)

\* node.children(): the children of node n in index order, in a scene graph
\* given by the parent of every node (-1 for a node without one).
RECURSIVE ChildrenFrom(_, _, _)
ChildrenFrom(parent_of, n, m) ==
    IF m > U16_MAX + 1 THEN <<>>
    ELSE (IF parent_of[m] = n THEN <<m>> ELSE <<>>)
         \o ChildrenFrom(parent_of, n, m + 1)

ChildrenOf(parent_of) == [n \in Nodes |-> ChildrenFrom(parent_of, n, 0)]


\* node.name() and node.transform().matrix() of node n.
NodeName(g, n) == IF n \in g.unnamed THEN None ELSE Some(<<"node", n>>)

NodeTransform(g, n) == <<"transform", n>>

----------------------------------------------------------------------------
(* Buffers and little-endian reads (byteorder::ReadBytesExt).              *)

\* The content of the buffer files: little-endian f32 words, each given as
\* its IEEE-754 bit pattern from the most significant byte to the least.
\* In order 0.0, 1.0, 0.5, 0.25, -1.0, 2.0, 0.75, and over again.
FloatWords ==
    << <<0, 0, 0, 0>>, <<63, 128, 0, 0>>, <<63, 0, 0, 0>>, <<62, 128, 0, 0>>,
       <<191, 128, 0, 0>>, <<64, 0, 0, 0>>, <<63, 64, 0, 0>> >>

FileByte(p) == FloatWords[((p \div 4) % Len(FloatWords)) + 1][4 - (p % 4)]

\* The byte at 0-based position i of a loaded buffer or of a view into one.
\* It is kept as its length and the file position of its first byte.
ByteAt(buf, i) == FileByte(buf.first + i)

\* &inbuf[from .. to]: the bytes, or a panic when the range leaves the
\* buffer.
SliceInRange(length, from, to) == from <= to /\ to <= length

read_u8(buf, at) == ByteAt(buf, at)

read_u16(buf, at) == ByteAt(buf, at) + 256 * ByteAt(buf, at + 1)

\* An f32 is kept as its IEEE-754 bit pattern, as four bytes from the most
\* significant (sign and exponent) to the least; a little-endian read takes
\* the least significant byte first.
read_f32(buf, at) ==
    << ByteAt(buf, at + 3), ByteAt(buf, at + 2),
       ByteAt(buf, at + 1), ByteAt(buf, at) >>

\* 1.0f32 = 0x3F800000 and 0.0f32.
F32_ONE == <<63, 128, 0, 0>>
F32_ZERO == <<0, 0, 0, 0>>

\* Matrix4::<f32>::identity(), column by column.
IdentityMatrix ==
    << F32_ONE, F32_ZERO, F32_ZERO, F32_ZERO,
       F32_ZERO, F32_ONE, F32_ZERO, F32_ZERO,
       F32_ZERO, F32_ZERO, F32_ONE, F32_ZERO,
       F32_ZERO, F32_ZERO, F32_ZERO, F32_ONE >>

\* gltf_importer::Buffers::view: the bytes of a buffer view, or None when
\* its buffer is not loaded.  The view is [uri, offset, length, stride].
BuffersView(bufs, view) ==
    IF view.uri \in DOMAIN bufs
    THEN Some([first |-> bufs[view.uri].first + view.offset,
               length |-> view.length])
    ELSE None

----------------------------------------------------------------------------
(* src/src/convert/skin.rs                                                 *)

\* A slip in get_root_index: the joint at position 0 stands in for a declared
\* root that is not in the joint list.
get_root_index_or_first(skin) ==
    IF skin.skeleton = None THEN Err("NoSkeleton")
    ELSE
      LET m == Find(skin.joints, LAMBDA n : n = skin.skeleton[1])
      IN IF m = 0 THEN Ok(0)
         ELSE IF m - 1 >= U16_MAX THEN Err("TooManyJoints")
         ELSE Ok(m - 1)

\* The (node index, joint index) pairs both get_root_index and
\* get_parent_indices build from skin.joints().
JointMapping(skin) ==
    [i \in 1 .. Len(skin.joints) |-> <<skin.joints[i], i - 1>>]

get_root_index(skin) ==
    IF skin.skeleton = None THEN Err("NoSkeleton")
    ELSE
      LET root_node_index == skin.skeleton[1]
          mapping == JointMapping(skin)
          m == Find(mapping, LAMBDA e : e[1] = root_node_index)
      IN IF m = 0 THEN Err("NoSkeleton")
         ELSE LET root_index == mapping[m][2]
              IN IF root_index >= U16_MAX
                 THEN Err("TooManyJoints")
                 ELSE Ok(root_index)

get_joint_names(g, skin) ==
    LET unnamed == Find(skin.joints, LAMBDA n : NodeName(g, n) = None)
    IN IF unnamed # 0 THEN Err("NoName")
       ELSE Ok([i \in 1 .. Len(skin.joints) |-> NodeName(g, skin.joints[i])[1]])

\* mapping1.iter().find(|&&(nidx, _)| nidx == node): the joint index paired
\* with the first entry for the node, None where there is none (and the
\* code's unwrap panics).
JointOfNode(mapping1, nidx) ==
    LET m == Find(mapping1, LAMBDA e : e[1] = nidx)
    IN IF m = 0 THEN None ELSE Some(mapping1[m][2])

\* A slip in get_parent_indices: the parent is recorded by its node index,
\* where its position in the joint list is meant.
get_parent_indices_by_node(g, skin) ==
    LET len == Len(skin.joints)
        HasChild(p, i) ==
            \E k \in DOMAIN g.children[skin.joints[p]] :
                g.children[skin.joints[p]][k] = skin.joints[i]
        parent1 ==
            [i \in 1 .. len |->
                LET p == Find([q \in 1 .. len |-> q], LAMBDA q : HasChild(q, i))
                IN IF p = 0 THEN U16_MAX ELSE skin.joints[p]]
    IN IF \E i \in 1 .. len : \E k \in DOMAIN g.children[skin.joints[i]] :
              \A q \in 1 .. len : skin.joints[q] # g.children[skin.joints[i]][k]
       THEN Panic
       ELSE IF \E i \in 1 .. len : parent1[i] > U16_MAX
       THEN Err("TooManyJoints")
       ELSE Ok(parent1)

get_parent_indices(g, skin) ==
    LET len == Len(skin.joints)
        mapping1 == JointMapping(skin)
        \* Find `joints` indices for all child joints.
        child_lists ==
            [i \in 1 .. len |->
                LET ch == g.children[skin.joints[i]]
                IN [k \in 1 .. Len(ch) |-> JointOfNode(mapping1, ch[k])]]
        mapping2 == [i \in 1 .. len |-> <<child_lists[i], i - 1>>]
        \* Find `joints` indices for all parents of joints.
        parent1 ==
            [i \in 1 .. len |->
                LET my_index == JointOfNode(mapping1, skin.joints[i])
                    p == Find(mapping2,
                              LAMBDA e : Find(e[1], LAMBDA c : c = my_index) # 0)
                IN IF p = 0 THEN U16_MAX ELSE mapping2[p][2]]
    IN IF \E i \in 1 .. len : \E k \in DOMAIN child_lists[i] :
              child_lists[i][k] = None
       THEN Panic
       ELSE IF \E i \in 1 .. len : parent1[i] > U16_MAX
       THEN Err("TooManyJoints")
       ELSE Ok(parent1)

\* accessor.size() of the gltf crate: component size times multiplicity.
ComponentSize(data_type) ==
    CASE data_type \in {"I8", "U8"} -> 1
      [] data_type \in {"I16", "U16"} -> 2
      [] data_type \in {"U32", "F32"} -> 4

Multiplicity(dimensions) ==
    CASE dimensions = "Scalar" -> 1
      [] dimensions = "Vec2" -> 2
      [] dimensions = "Vec3" -> 3
      [] dimensions \in {"Vec4", "Mat2"} -> 4
      [] dimensions = "Mat3" -> 9
      [] dimensions = "Mat4" -> 16

AccessorSize(accessor) ==
    ComponentSize(accessor.data_type) * Multiplicity(accessor.dimensions)

\* One inverse bind matrix: sixteen f32 read in order from the slice that
\* starts at offset.
ReadMatrix(contents, offset) ==
    [c \in 1 .. 16 |-> read_f32(contents, offset + 4 * (c - 1))]

get_inverse_bind_matrices(bufs, skin) ==
    IF skin.inverse_bind_matrices = None
    THEN Ok([i \in 1 .. Len(skin.joints) |-> IdentityMatrix])
    ELSE
      LET accessor == skin.inverse_bind_matrices[1]
          view == BuffersView(bufs, accessor.view)
          contents == view[1]
          size == AccessorSize(accessor)
          step == IF accessor.view.stride = None
                  THEN size ELSE accessor.view.stride[1]
          at(i) == accessor.offset + (i - 1) * step
      IN IF accessor.dimensions # "Mat4" THEN Err("UnsupportedDimensions")
         ELSE IF accessor.data_type # "F32" THEN Err("UnsupportedDataType")
         ELSE IF view = None THEN Err("Other")
         ELSE IF \E i \in 1 .. accessor.count :
                   ~SliceInRange(contents.length, at(i), at(i) + size)
         THEN Panic
         ELSE Ok([i \in 1 .. accessor.count |-> ReadMatrix(contents, at(i))])

\* itertools::multizip: as many tuples as the shortest of the lists.
MinLen(lists) == Min({Len(lists[k]) : k \in DOMAIN lists})

skin_get_joints(g, bufs, skin) ==
    LET names == get_joint_names(g, skin)
        transforms ==
            [i \in 1 .. Len(skin.joints) |-> NodeTransform(g, skin.joints[i])]
        inverse_bind_matrices == get_inverse_bind_matrices(bufs, skin)
        parent_indices == get_parent_indices(g, skin)
        old_indices == skin.joints
    IN IF ~IsOk(names) THEN names
       ELSE IF ~IsOk(inverse_bind_matrices) THEN inverse_bind_matrices
       ELSE IF ~IsOk(parent_indices) THEN parent_indices
       ELSE
         LET n == MinLen(<<names.val, transforms, inverse_bind_matrices.val,
                           parent_indices.val, old_indices>>)
         IN Ok([i \in 1 .. n |->
                  [name |-> names.val[i],
                   local_transform |-> transforms[i],
                   inverse_bind_matrix |-> inverse_bind_matrices.val[i],
                   parent |-> parent_indices.val[i],
                   old_index |-> old_indices[i]]])

get_skin(g, bufs, skin) ==
    IF skin.name = None THEN Err("NoName")
    ELSE
      LET root_index == get_root_index(skin)
          joints == skin_get_joints(g, bufs, skin)
      IN IF ~IsOk(root_index) THEN root_index
         ELSE IF ~IsOk(joints) THEN joints
         ELSE Ok([name |-> skin.name[1],
                  root_index |-> root_index.val,
                  joints |-> joints.val])

\* skin::get: every skin of the asset in order; the first failure ends it.
RECURSIVE CollectFrom(_, _)
CollectFrom(results, i) ==
    IF i > Len(results) THEN Ok(<<>>)
    ELSE IF ~IsOk(results[i]) THEN results[i]
    ELSE LET rest == CollectFrom(results, i + 1)
         IN IF ~IsOk(rest) THEN rest ELSE Ok(<<results[i].val>> \o rest.val)

\* Iterator::collect::<Result<Vec<_>>>() over results produced in order.
Collect(results) == CollectFrom(results, 1)

skin_get(g, bufs) ==
    Collect([i \in 1 .. Len(g.skins) |-> get_skin(g, bufs, g.skins[i])])

\* Skin::get_joint_index: a u16 counter walks the joint list.  `index += 1`
\* past u16::MAX panics in a build with overflow checks and wraps to 0 in
\* one without.  The value is Ok(Some(index)), Ok(None) or the panic.
RECURSIVE JointIndexLoop(_, _, _, _, _)
JointIndexLoop(checks, joints, node_index, i, index) ==
    IF i > Len(joints) THEN Ok(None)
    ELSE IF joints[i].old_index = node_index THEN Ok(Some(index))
    ELSE IF index = U16_MAX
         THEN (IF checks THEN Panic
               ELSE JointIndexLoop(checks, joints, node_index, i + 1, 0))
         ELSE JointIndexLoop(checks, joints, node_index, i + 1, index + 1)

Skin_get_joint_index(e, skin, node_index) ==
    JointIndexLoop(e.overflow_checks, skin.joints, node_index, 1, 0)

Skin_get_node_index(skin, joint_index) ==
    IF joint_index >= Len(skin.joints) THEN None
    ELSE Some(skin.joints[joint_index + 1].old_index)

----------------------------------------------------------------------------
(* src/src/convert/animation.rs                                            *)

\* The elements gltf_utils::AccessorIter yields for an accessor: as many as
\* its count.  Timestamps are kept with the accessor; the k-th element of a
\* value accessor has the components RawComponent gives.
RawComponent(data_type, k, c) ==
    LET n == ((k + c) % 4) + 1
    IN CASE data_type = "U8" -> <<0, 255, 128, 1>>[n]
         [] data_type = "I16" -> <<0, 32767, -32767, 16384>>[n]
         [] data_type = "U16" -> <<0, 65535, 32768, 1>>[n]
         [] OTHER -> <<0, 1, -2, 3>>[n]

\* A decoded f32 of the sampler is kept as the exact quotient it rounds:
\* <<numerator, denominator>>.
F32Of(x) == <<x, 1>>

\* A slip in the i16 arms: the component is divided by 32768.0.
Denormalized_by_32768(data_type, x) ==
    CASE data_type = "U8" -> <<x, 255>>
      [] data_type = "U16" -> <<x, 65535>>
      [] data_type = "I16" -> <<x, 32768>>
      [] OTHER -> F32Of(x)

\* gltf_utils::Denormalize for u8 and u16, and the division by 32767.0 the
\* sampler applies to i16.
Denormalized(data_type, x) ==
    CASE data_type = "U8" -> <<x, 255>>
      [] data_type = "U16" -> <<x, 65535>>
      [] data_type = "I16" -> <<x, 32767>>
      [] OTHER -> F32Of(x)

\* The f32 that an f32 division yields (IEEE-754, round to nearest, ties to
\* even) for a quotient of two integers below 2^16 in magnitude, as its
\* four bytes from the most significant to the least.  The numerator or
\* the denominator is doubled until the quotient is in [1, 2), 23 more
\* bits are taken by long division, and the remainder rounds the last.
RECURSIVE F32Exp(_, _, _)
F32Exp(a, d, e) ==
    IF a < d THEN F32Exp(2 * a, d, e - 1)
    ELSE IF a >= 2 * d THEN F32Exp(a, 2 * d, e + 1)
    ELSE <<a, d, e>>

RECURSIVE F32Mantissa(_, _, _, _)
F32Mantissa(m, r, d, bits) ==
    IF bits = 0
    THEN (IF 2 * r > d \/ (2 * r = d /\ m % 2 = 1) THEN m + 1 ELSE m)
    ELSE IF 2 * r >= d THEN F32Mantissa(2 * m + 1, 2 * r - d, d, bits - 1)
    ELSE F32Mantissa(2 * m, 2 * r, d, bits - 1)

F32Quotient(q) ==
    LET a == IF q[1] < 0 THEN -q[1] ELSE q[1]
        scaled == F32Exp(a, q[2], 0)
        m == F32Mantissa(1, scaled[1] - scaled[2], scaled[2], 23)
        magnitude == (scaled[3] + 127) * 2^23 + (m - 2^23)
        sign == IF q[1] < 0 THEN 128 ELSE 0
    IN IF q[1] = 0 THEN F32_ZERO
       ELSE <<sign + (magnitude \div 2^24), (magnitude \div 2^16) % 256,
              (magnitude \div 256) % 256, magnitude % 256>>

\* One element of RotationsF32 and of WeightsF32 for raw components x: the
\* f32 each arm of next() makes of a component.
RotationItem(data_type, x) ==
    [c \in 1 .. 4 |-> F32Quotient(Denormalized(data_type, x[c]))]

WeightItem(data_type, x) == F32Quotient(Denormalized(data_type, x))

\* Translations and Scales: AccessorIter<[f32; 3]> over the output accessor.
Vector3Items(accessor) ==
    [k \in 1 .. accessor.count |->
        [c \in 1 .. 3 |-> F32Of(RawComponent("F32", k, c))]]

\* Rotations::new and RotationsF32: the enum variant is picked by shape and
\* component type; anything else is unimplemented!().
RotationsF32(accessor) ==
    IF accessor.dimensions # "Vec4" THEN Panic
    ELSE IF accessor.data_type \notin {"F32", "U8", "I16", "U16"} THEN Panic
    ELSE Ok([k \in 1 .. accessor.count |->
                [c \in 1 .. 4 |->
                    Denormalized(accessor.data_type,
                                 RawComponent(accessor.data_type, k, c))]])

\* Weights::new and WeightsF32.
WeightsF32(accessor) ==
    IF accessor.dimensions # "Scalar" THEN Panic
    ELSE IF accessor.data_type \notin {"F32", "U8", "I16", "U16"} THEN Panic
    ELSE Ok([k \in 1 .. accessor.count |->
                Denormalized(accessor.data_type,
                             RawComponent(accessor.data_type, k, 1))])

\* The timestamps of a spline sampler padded with its last timestamp twice.
SamplerTimes_last_twice(sampler) ==
    LET times == sampler.input.times
    IN CASE sampler.interpolation = "CatmullRomSpline" ->
              IF times = <<>> THEN Panic
              ELSE Ok(<<"CatmullRom", times \o <<times[Len(times)], times[Len(times)]>> >>)
         [] sampler.interpolation = "CubicSpline" ->
              IF times = <<>> THEN Panic
              ELSE Ok(<<"Cubic", times \o <<times[Len(times)], times[Len(times)]>> >>)
         [] sampler.interpolation = "Linear" -> Ok(<<"Linear", times>>)
         [] sampler.interpolation = "Step" -> Ok(<<"Step", times>>)

\* The first match arm of the closure in get_channels: the interpolation
\* method and the timestamps, with the two stubs of a spline appended.
\* times[0] on an empty list panics.
SamplerTimes(sampler) ==
    LET times == sampler.input.times
    IN CASE sampler.interpolation = "CatmullRomSpline" ->
              IF times = <<>> THEN Panic
              ELSE Ok(<<"CatmullRom", times \o <<times[1], times[Len(times)]>> >>)
         [] sampler.interpolation = "CubicSpline" ->
              IF times = <<>> THEN Panic
              ELSE Ok(<<"Cubic", times \o <<times[1], times[Len(times)]>> >>)
         [] sampler.interpolation = "Linear" -> Ok(<<"Linear", times>>)
         [] sampler.interpolation = "Step" -> Ok(<<"Step", times>>)

\* animation::get_joint_index: the first skin that knows the node decides.
RECURSIVE JointIndexInSkins(_, _, _, _)
JointIndexInSkins(e, node_index, skin_list, i) ==
    IF i > Len(skin_list) THEN Err("InvalidJoint")
    ELSE LET found == Skin_get_joint_index(e, skin_list[i], node_index)
         IN IF ~IsOk(found) THEN found
            ELSE IF IsSome(found.val) THEN Ok(found.val[1])
            ELSE JointIndexInSkins(e, node_index, skin_list, i + 1)

get_joint_index(e, node_index, skin_list) ==
    JointIndexInSkins(e, node_index, skin_list, 1)

\* Iterator::zip: pairs up to the end of the shorter list.
Zip(times, values) ==
    [i \in 1 .. MinOf(Len(times), Len(values)) |->
        [time_stamp |-> times[i], value |-> values[i]]]

\* The closure get_channels maps over animation.channels().
sample_channel(e, channel, skin_list) ==
    LET sampler == channel.sampler
        timed == SamplerTimes(sampler)
        interpolation_method == timed.val[1]
        times == timed.val[2]
        joint_index == get_joint_index(e, channel.target.node, skin_list)
        path == channel.target.path
        values ==
            CASE path = "Translation" -> Ok(Vector3Items(sampler.output))
              [] path = "Rotation" -> RotationsF32(sampler.output)
              [] path = "Scale" -> Ok(Vector3Items(sampler.output))
              [] path = "Weights" -> WeightsF32(sampler.output)
    IN IF ~IsOk(timed) THEN timed
       ELSE IF ~IsOk(joint_index) THEN joint_index
       ELSE IF ~IsOk(values) THEN values
       ELSE Ok([kind |-> path,
                joint_index |-> joint_index.val,
                interpolation |-> interpolation_method,
                data |-> Zip(times, values.val)])

get_channels(e, animation, skin_list) ==
    Collect([i \in 1 .. Len(animation.channels) |->
                sample_channel(e, animation.channels[i], skin_list)])

get_animation(e, animation, skin_list) ==
    IF animation.name = None THEN Err("NoName")
    ELSE LET channels == get_channels(e, animation, skin_list)
         IN IF ~IsOk(channels) THEN channels
            ELSE Ok([name |-> animation.name[1], channels |-> channels.val])

animation_get(e, g, skin_list) ==
    Collect([i \in 1 .. Len(g.animations) |->
                get_animation(e, g.animations[i], skin_list)])

----------------------------------------------------------------------------
(* src/src/convert/primitive.rs                                            *)

\* The fields of an f32 bit pattern.
F32Negative(f) == f[1] >= 128
F32Exponent(f) == (f[1] % 128) * 2 + (f[2] \div 128)
F32MantissaIsZero(f) == f[2] % 128 = 0 /\ f[3] = 0 /\ f[4] = 0
F32IsZero(f) == F32Exponent(f) = 0 /\ F32MantissaIsZero(f)
F32IsFinite(f) == F32Exponent(f) # 255
F32_NAN == <<127, 192, 0, 0>>

\* rotation_matrix * Vector4::new(x, y, z, w) for the matrix with the
\* diagonal 1, -1, -1, 1: every component is a sum over all four inputs, so
\* one infinity or NaN makes all of them NaN; otherwise x and w are kept and
\* y and z change sign, a zero staying +0.0.
RotateToVulkan(v) ==
    LET keep(c) == IF F32IsZero(c) THEN F32_ZERO ELSE c
        negate(c) ==
            IF F32IsZero(c) THEN F32_ZERO
            ELSE <<(c[1] + 128) % 256, c[2], c[3], c[4]>>
    IN IF \E i \in 1 .. 4 : ~F32IsFinite(v[i])
       THEN <<F32_NAN, F32_NAN, F32_NAN, F32_NAN>>
       ELSE <<keep(v[1]), negate(v[2]), negate(v[3]), keep(v[4])>>

\* (x * (u16::max_value() as f32)).round() as u16, for an f32 whose
\* mantissa fits its first seven bits (every word of FloatWords): the
\* product is exact, round() rounds halves away from zero, and the cast
\* saturates (NaN becomes 0).
QuantizeF32(f) ==
    LET e == F32Exponent(f)
        product == (128 + (f[2] % 128)) * U16_MAX_VALUE
        k == 134 - e
    IN IF e = 255
       THEN (IF F32MantissaIsZero(f) /\ ~F32Negative(f) THEN U16_MAX_VALUE ELSE 0)
       ELSE IF e = 0 \/ F32Negative(f) THEN 0
       ELSE IF k <= 0 THEN U16_MAX_VALUE
       ELSE IF k > 25 THEN 0
       ELSE MinOf(U16_MAX_VALUE, (product + 2^(k - 1)) \div 2^k)

\* (x as u16) << 8 for a byte x.
ShiftU8(x) == (x * 256) % (U16_MAX_VALUE + 1)

\* primitive.get(&semantic): the accessor of the attribute, if declared.
PrimitiveGet(primitive, semantic) == primitive.attributes[semantic]

\* The loop shared by the decoders: buffers.get(uri).unwrap(), then count
\* times a slice of size bytes at offset, one element read from it, and
\* offset moved on by the view's stride or else the accessor's size.
DecodeStream(bufs, access, size, Element(_, _)) ==
    LET inbuf == bufs[access.view.uri]
        step == IF access.view.stride = None
                THEN AccessorSize(access) ELSE access.view.stride[1]
        at(i) == access.view.offset + access.offset + (i - 1) * step
    IN IF access.view.uri \notin DOMAIN bufs THEN Panic
       ELSE IF \E i \in 1 .. access.count :
                 ~SliceInRange(inbuf.length, at(i), at(i) + size)
       THEN Panic
       ELSE Ok([i \in 1 .. access.count |-> Element(inbuf, at(i))])

\* The elements the loops push.
PositionAt(inbuf, at) ==
    LET pos == RotateToVulkan(<<read_f32(inbuf, at), read_f32(inbuf, at + 4),
                                read_f32(inbuf, at + 8), F32_ONE>>)
    IN <<pos[1], pos[2], pos[3]>>

TangentAt(inbuf, at) ==
    RotateToVulkan(<<read_f32(inbuf, at), read_f32(inbuf, at + 4),
                     read_f32(inbuf, at + 8), read_f32(inbuf, at + 12)>>)

TexCoordU8At(inbuf, at) ==
    <<ShiftU8(read_u8(inbuf, at)),
      U16_MAX_VALUE - ShiftU8(read_u8(inbuf, at + 1))>>

TexCoordU16At(inbuf, at) ==
    <<read_u16(inbuf, at), U16_MAX_VALUE - read_u16(inbuf, at + 2)>>

TexCoordF32At(inbuf, at) ==
    <<QuantizeF32(read_f32(inbuf, at)),
      U16_MAX_VALUE - QuantizeF32(read_f32(inbuf, at + 4))>>

JointsU8At(inbuf, at) == [c \in 1 .. 4 |-> read_u8(inbuf, at + (c - 1))]

JointsU16At(inbuf, at) == [c \in 1 .. 4 |-> read_u16(inbuf, at + 2 * (c - 1))]

WeightsU8At(inbuf, at) == [c \in 1 .. 4 |-> ShiftU8(read_u8(inbuf, at + (c - 1)))]

WeightsU16At(inbuf, at) == [c \in 1 .. 4 |-> read_u16(inbuf, at + 2 * (c - 1))]

WeightsF32At(inbuf, at) ==
    [c \in 1 .. 4 |-> QuantizeF32(read_f32(inbuf, at + 4 * (c - 1)))]

\* A slip in get_positions: the offset moves on by the size of a position,
\* whatever the stride of the view.
get_positions_packed(primitive, bufs) ==
    LET got == PrimitiveGet(primitive, "POSITION")
        access == got[1]
        packed == [access EXCEPT !.view.stride = None]
    IN IF got = None THEN Err("MissingAttributes")
       ELSE IF access.dimensions = "Vec3"
       THEN (IF access.data_type = "F32"
             THEN DecodeStream(bufs, packed, 12, PositionAt)
             ELSE Err("UnsupportedDataType"))
       ELSE Err("UnsupportedDimensions")

get_positions(primitive, bufs) ==
    LET got == PrimitiveGet(primitive, "POSITION")
        access == got[1]
    IN IF got = None THEN Err("MissingAttributes")
       ELSE IF access.dimensions = "Vec3"
       THEN (IF access.data_type = "F32"
             THEN DecodeStream(bufs, access, 12, PositionAt)
             ELSE Err("UnsupportedDataType"))
       ELSE Err("UnsupportedDimensions")

\* A slip in get_normals: a primitive without normals gets an empty list.
get_normals_or_empty(primitive, bufs) ==
    LET got == PrimitiveGet(primitive, "NORMAL")
        access == got[1]
    IN IF got = None THEN Ok(<<>>)
       ELSE IF access.dimensions = "Vec3"
       THEN (IF access.data_type = "F32"
             THEN DecodeStream(bufs, access, 12, PositionAt)
             ELSE Err("UnsupportedDimensions"))
       ELSE Err("UnsupportedDataType")

\* As the code has it, the two errors of get_normals are the other way
\* round than in get_positions.
get_normals(primitive, bufs) ==
    LET got == PrimitiveGet(primitive, "NORMAL")
        access == got[1]
    IN IF got = None THEN Err("MissingAttributes")
       ELSE IF access.dimensions = "Vec3"
       THEN (IF access.data_type = "F32"
             THEN DecodeStream(bufs, access, 12, PositionAt)
             ELSE Err("UnsupportedDimensions"))
       ELSE Err("UnsupportedDataType")

get_tangents(primitive, bufs) ==
    LET got == PrimitiveGet(primitive, "TANGENT")
        access == got[1]
    IN IF got = None THEN Err("MissingAttributes")
       ELSE IF access.dimensions = "Vec4"
       THEN (IF access.data_type = "F32"
             THEN DecodeStream(bufs, access, 16, TangentAt)
             ELSE Err("UnsupportedDataType"))
       ELSE Err("UnsupportedDimensions")

\* index is 0 or 1: Semantic::TexCoords(index).
get_texcoords(primitive, index, bufs) ==
    LET got == PrimitiveGet(primitive, IF index = 0 THEN "TEXCOORD_0" ELSE "TEXCOORD_1")
        access == got[1]
    IN IF got = None THEN Err("MissingAttributes")
       ELSE IF access.dimensions = "Vec2"
       THEN CASE access.data_type = "U8" -> DecodeStream(bufs, access, 2, TexCoordU8At)
              [] access.data_type = "U16" -> DecodeStream(bufs, access, 4, TexCoordU16At)
              [] access.data_type = "F32" -> DecodeStream(bufs, access, 8, TexCoordF32At)
              [] OTHER -> Err("UnsupportedDimensions")
       ELSE Err("UnsupportedDataType")

get_joints(primitive, bufs) ==
    LET got == PrimitiveGet(primitive, "JOINTS_0")
        access == got[1]
    IN IF got = None THEN Err("MissingAttributes")
       ELSE IF access.dimensions = "Vec4"
       THEN CASE access.data_type = "U8" -> DecodeStream(bufs, access, 4, JointsU8At)
              [] access.data_type = "U16" -> DecodeStream(bufs, access, 8, JointsU16At)
              [] OTHER -> Err("UnsupportedDataType")
       ELSE Err("UnsupportedDimensions")

\* get_joints as mesh.rs and lib.rs have it: a u8 joint index goes into the
\* u16 output as (x as u16) << 8.
JointsShiftedU8At(inbuf, at) ==
    [c \in 1 .. 4 |-> ShiftU8(read_u8(inbuf, at + (c - 1)))]

mesh_get_joints(primitive, bufs) ==
    LET got == PrimitiveGet(primitive, "JOINTS_0")
        access == got[1]
    IN IF got = None THEN Err("MissingAttributes")
       ELSE IF access.dimensions = "Vec4"
       THEN CASE access.data_type = "U8" ->
                    DecodeStream(bufs, access, 4, JointsShiftedU8At)
              [] access.data_type = "U16" ->
                    DecodeStream(bufs, access, 8, JointsU16At)
              [] OTHER -> Err("UnsupportedDataType")
       ELSE Err("UnsupportedDimensions")

lib_get_joints(primitive, bufs) ==
    LET got == PrimitiveGet(primitive, "JOINTS_0")
        access == got[1]
    IN IF got = None THEN Err("MissingAttributes")
       ELSE IF access.dimensions = "Vec4"
       THEN CASE access.data_type = "U8" ->
                    DecodeStream(bufs, access, 4, JointsShiftedU8At)
              [] access.data_type = "U16" ->
                    DecodeStream(bufs, access, 8, JointsU16At)
              [] OTHER -> Err("UnsupportedDataType")
       ELSE Err("UnsupportedDimensions")

\* The decoding of get_weights, for what primitive.get gave it.
WeightsFrom(got, bufs) ==
    LET access == got[1]
    IN IF got = None THEN Err("MissingAttributes")
       ELSE IF access.dimensions = "Vec4"
       THEN CASE access.data_type = "U8" -> DecodeStream(bufs, access, 4, WeightsU8At)
              [] access.data_type = "U16" -> DecodeStream(bufs, access, 8, WeightsU16At)
              [] access.data_type = "F32" -> DecodeStream(bufs, access, 16, WeightsF32At)
              [] OTHER -> Err("UnsupportedDataType")
       ELSE Err("UnsupportedDimensions")

\* As the code has it, the accessor is that of Semantic::Joints(0).
get_weights(primitive, bufs) ==
    WeightsFrom(PrimitiveGet(primitive, "JOINTS_0"), bufs)

get_bones(primitive, bufs, has_joints) ==
    IF has_joints
    THEN LET joints == get_joints(primitive, bufs)
             weights == get_weights(primitive, bufs)
         IN IF ~IsOk(joints) THEN joints
            ELSE IF ~IsOk(weights) THEN weights
            ELSE Ok(Some([joints |-> joints.val, weights |-> weights.val]))
    ELSE Ok(None)

\* A slip in get_vertex_attributes: the tangents are probed under the
\* TEXCOORD_1 semantic.
get_vertex_attributes_tangent_probe(primitive, bufs, has_joints) ==
    LET positions == get_positions(primitive, bufs)
        normals == get_normals(primitive, bufs)
        texcoords_0 == get_texcoords(primitive, 0, bufs)
        texcoords_1 ==
            IF PrimitiveGet(primitive, "TEXCOORD_1") # None
            THEN LET res == get_texcoords(primitive, 0, bufs)
                 IN IF IsOk(res) THEN Ok(Some(res.val)) ELSE res
            ELSE Ok(None)
        tangents ==
            IF PrimitiveGet(primitive, "TEXCOORD_1") # None
               /\ PrimitiveGet(primitive, "TANGENT") # None
            THEN LET res == get_tangents(primitive, bufs)
                 IN IF IsOk(res) THEN Ok(Some(res.val)) ELSE res
            ELSE Ok(None)
        bones == get_bones(primitive, bufs, has_joints)
    IN IF ~IsOk(positions) THEN positions
       ELSE IF ~IsOk(normals) THEN normals
       ELSE IF ~IsOk(texcoords_0) THEN texcoords_0
       ELSE IF ~IsOk(texcoords_1) THEN texcoords_1
       ELSE IF ~IsOk(tangents) THEN tangents
       ELSE IF ~IsOk(bones) THEN bones
       ELSE Ok([positions |-> positions.val,
                normals |-> normals.val,
                texcoords_0 |-> texcoords_0.val,
                texcoords_1 |-> texcoords_1.val,
                tangents |-> tangents.val,
                bones |-> bones.val])

\* As the code has it, texcoords_1 is decoded with index 0.
get_vertex_attributes(primitive, bufs, has_joints) ==
    LET positions == get_positions(primitive, bufs)
        normals == get_normals(primitive, bufs)
        texcoords_0 == get_texcoords(primitive, 0, bufs)
        texcoords_1 ==
            IF PrimitiveGet(primitive, "TEXCOORD_1") # None
            THEN LET res == get_texcoords(primitive, 0, bufs)
                 IN IF IsOk(res) THEN Ok(Some(res.val)) ELSE res
            ELSE Ok(None)
        tangents ==
            IF PrimitiveGet(primitive, "TANGENT") # None
            THEN LET res == get_tangents(primitive, bufs)
                 IN IF IsOk(res) THEN Ok(Some(res.val)) ELSE res
            ELSE Ok(None)
        bones == get_bones(primitive, bufs, has_joints)
    IN IF ~IsOk(positions) THEN positions
       ELSE IF ~IsOk(normals) THEN normals
       ELSE IF ~IsOk(texcoords_0) THEN texcoords_0
       ELSE IF ~IsOk(texcoords_1) THEN texcoords_1
       ELSE IF ~IsOk(tangents) THEN tangents
       ELSE IF ~IsOk(bones) THEN bones
       ELSE Ok([positions |-> positions.val,
                normals |-> normals.val,
                texcoords_0 |-> texcoords_0.val,
                texcoords_1 |-> texcoords_1.val,
                tangents |-> tangents.val,
                bones |-> bones.val])

----------------------------------------------------------------------------
(* src/src/convert/morph_target.rs                                         *)

\* A u32 is kept as its four bytes from the most significant to the least.
read_u32(buf, at) ==
    << ByteAt(buf, at + 3), ByteAt(buf, at + 2),
       ByteAt(buf, at + 1), ByteAt(buf, at) >>

\* x as u32 for a u8 or u16 x.
AsU32(x) == <<0, 0, x \div 256, x % 256>>

IndexSize(index_type) ==
    CASE index_type = "U8" -> 1
      [] index_type = "U16" -> 2
      [] index_type = "U32" -> 4

\* The start of get_sparse_indices and get_sparse_values: the stride of the
\* view or else the element size, the debug assertion on it, and the slice
\* [start .. start + stride * (count - 1) + size] of the source buffer that
\* the cursor is opened on.  `count - 1` of a count of 0 panics in a build
\* with overflow checks and wraps in one without, where the end of the
\* slice comes out as start + size - stride.
SparseData(e, bufs, view, count, size) ==
    LET stride == IF view.stride = None THEN size ELSE view.stride[1]
        start == view.offset
        end == start + stride * (count - 1) + size
    IN IF e.debug_assertions /\ stride < size THEN Panic
       ELSE IF count = 0 /\ e.overflow_checks THEN Panic
       ELSE IF view.uri \notin DOMAIN bufs THEN Panic
       ELSE IF ~(0 <= end /\ SliceInRange(bufs[view.uri].length, start, end))
       THEN Panic
       ELSE Ok([first |-> bufs[view.uri].first + start, length |-> end - start])

\* The read loops: count elements taken from the cursor one after the
\* other, each read starting where the one before it ended; a read past the
\* end of the slice is an io::Error.
CursorReads(data, count, size) ==
    IF count * size > data.length THEN Err("Io")
    ELSE Ok([i \in 1 .. count |-> (i - 1) * size])

get_sparse_indices(e, sparse, bufs) ==
    LET count == sparse.count
        index_type == sparse.indices.index_type
        index_size == IndexSize(index_type)
        data == SparseData(e, bufs, sparse.indices.view, count, index_size)
        reads == CursorReads(data.val, count, index_size)
        index(at) ==
            CASE index_type = "U8" -> AsU32(read_u8(data.val, at))
              [] index_type = "U16" -> AsU32(read_u16(data.val, at))
              [] index_type = "U32" -> read_u32(data.val, at)
    IN IF ~IsOk(data) THEN data
       ELSE IF ~IsOk(reads) THEN reads
       ELSE Ok([i \in 1 .. count |-> index(reads.val[i])])

get_sparse_values(e, sparse, bufs) ==
    LET count == sparse.count
        data == SparseData(e, bufs, sparse.values.view, count, 12)
        reads == CursorReads(data.val, count, 12)
        value(at) ==
            <<read_f32(data.val, at), read_f32(data.val, at + 4),
              read_f32(data.val, at + 8)>>
    IN IF ~IsOk(data) THEN data
       ELSE IF ~IsOk(reads) THEN reads
       ELSE Ok([i \in 1 .. count |-> value(reads.val[i])])

\* gltf_utils::AccessorIter over a [f32; 3] accessor: count elements, each
\* at the stride of the view (or the element size) from the one before.
FullMorphs(access, bufs) ==
    LET inbuf == bufs[access.view.uri]
        step == IF access.view.stride = None THEN 12 ELSE access.view.stride[1]
        at(i) == access.view.offset + access.offset + (i - 1) * step
    IN IF access.view.uri \notin DOMAIN bufs THEN Panic
       ELSE IF \E i \in 1 .. access.count :
                 ~SliceInRange(inbuf.length, at(i), at(i) + 12)
       THEN Panic
       ELSE Ok([i \in 1 .. access.count |->
                  <<read_f32(inbuf, at(i)), read_f32(inbuf, at(i) + 4),
                    read_f32(inbuf, at(i) + 8)>>])

get_data(e, accessor, bufs) ==
    IF accessor = None THEN Ok(None)
    ELSE
      LET access == accessor[1]
          indices == get_sparse_indices(e, access.sparse[1], bufs)
          values == get_sparse_values(e, access.sparse[1], bufs)
          full == FullMorphs(access, bufs)
      IN IF access.dimensions # "Vec3" \/ access.data_type # "F32"
         THEN Err("Other")
         ELSE IF access.sparse # None
         THEN (IF ~IsOk(indices) THEN indices
               ELSE IF ~IsOk(values) THEN values
               ELSE Ok(Some([kind |-> "Sparse",
                             data |-> [i \in 1 .. MinOf(Len(indices.val), Len(values.val)) |->
                                          [index |-> indices.val[i],
                                           value |-> values.val[i]]]])))
         ELSE IF ~IsOk(full) THEN full
         ELSE Ok(Some([kind |-> "Full", data |-> full.val]))

\* The closure of morph_target::get, for one morph target.
get_morph_target(e, morph_target, bufs) ==
    LET positions == get_data(e, morph_target.positions, bufs)
        normals == get_data(e, morph_target.normals, bufs)
        tangents == get_data(e, morph_target.tangents, bufs)
    IN IF ~IsOk(positions) THEN positions
       ELSE IF ~IsOk(normals) THEN normals
       ELSE IF ~IsOk(tangents) THEN tangents
       ELSE Ok([positions |-> positions.val, normals |-> normals.val,
                tangents |-> tangents.val])

morph_target_get(e, primitive, bufs) ==
    Collect([i \in 1 .. Len(primitive.morph_targets) |->
                get_morph_target(e, primitive.morph_targets[i], bufs)])

----------------------------------------------------------------------------
(* The source assets the skeleton builder is run on.                       *)

\* Scene graphs are forests, given by the parent of every node.
\* Every forest over the small nodes (a parent has a smaller index; joint
\* lists take the nodes in every order).
SmallForests ==
    LET Small == 0 .. (SmallNodes - 1)
        Choices ==
            {f \in [Small -> Small \cup {-1}] : \A n \in Small : f[n] < n}
    IN {[n \in Nodes |-> IF n \in Small THEN f[n] ELSE -1] : f \in Choices}

\* Over the nodes 0 .. n-1: the chain 0 -> 1 -> ... -> n-1, the same chain
\* read backwards, and the star around node 0.  The other nodes stand alone.
ChainForest(n) == [m \in Nodes |-> IF m < n THEN m - 1 ELSE -1]
ReverseChainForest(n) == [m \in Nodes |-> IF m < n - 1 THEN m + 1 ELSE -1]
StarForest(n) == [m \in Nodes |-> IF 0 < m /\ m < n THEN 0 ELSE -1]

\* Sizes of the scene graphs built around the index range.
LongSizes == {4, U16_MAX - 1, U16_MAX, U16_MAX + 1, U16_MAX + 2}

Forests ==
    SmallForests
    \cup UNION {{ChainForest(n), ReverseChainForest(n), StarForest(n)} :
                   n \in LongSizes}

\* node.children() of every node, for every scene graph.
SceneGraphs == {ChildrenOf(p) : p \in Forests}

\* The lists without repetition over a set of nodes, of every length.
RECURSIVE DistinctLists(_)
DistinctLists(S) ==
    {<<>>} \cup UNION {{<<x>> \o l : l \in DistinctLists(S \ {x})} : x \in S}

\* The joint list 0, 1, ..., n-1.
FirstNodes(n) == [i \in 1 .. n |-> i - 1]

\* skin.joints(): the small nodes in every order, lists that name a node
\* twice, and lists up to two entries longer than the index range.
JointLists ==
    LET Small == 0 .. (SmallNodes - 1)
    IN DistinctLists(Small)
       \cup {<<n, n>> : n \in Small}
       \cup {<<n, m, n>> : n \in Small, m \in Small}
       \cup {FirstNodes(n) : n \in 0 .. (U16_MAX + 2)}

MainBuffer == "buffer0.bin"

BufferLength == 64 * (U16_MAX + 4)

LoadedBuffers == [u \in {MainBuffer} |-> [first |-> 0, length |-> BufferLength]]

\* An inverse-bind-matrix accessor over the loaded buffer.
IbmAccessor(dimensions, data_type, count, stride, uri, length) ==
    [dimensions |-> dimensions, data_type |-> data_type, count |-> count,
     offset |-> 0,
     view |-> [uri |-> uri, offset |-> 16, length |-> length, stride |-> stride]]

IbmAccessors(len) ==
    {None}
    \cup {Some(IbmAccessor("Mat4", "F32", c, None, MainBuffer, 64 * c)) :
              c \in {c \in {len - 1, len, len + 1} : c >= 0}}
    \cup {Some(IbmAccessor("Mat4", "F32", len, Some(80), MainBuffer, 80 * len)),
          Some(IbmAccessor("Vec4", "F32", len, None, MainBuffer, 16 * len)),
          Some(IbmAccessor("Mat4", "U16", len, None, MainBuffer, 32 * len)),
          Some(IbmAccessor("Mat4", "F32", len, None, "missing.bin", 64 * len)),
          Some(IbmAccessor("Mat4", "F32", len + 1, None, MainBuffer, 64 * len + 63))}

SkeletonRoots ==
    {None} \cup {Some(n) : n \in (0 .. (SmallNodes - 1))
                                 \cup {U16_MAX - 1, U16_MAX, U16_MAX + 1}}

\* The skin's name, the nodes without a name and the inverse-bind-matrix
\* accessor, for a joint list of len entries.
SkinVariants(len) ==
    LET missing == Some(IbmAccessor("Mat4", "F32", len, None, "missing.bin", 64 * len))
        vec4 == Some(IbmAccessor("Vec4", "F32", len, None, MainBuffer, 16 * len))
    IN {<<Some("skin"), {}, ibm>> : ibm \in IbmAccessors(len)}
       \cup {<<None, {}, ibm>> : ibm \in {None, missing}}
       \cup {<<Some("skin"), {1}, ibm>> : ibm \in {None, vec4}}
       \cup {<<None, {1}, None>>}

DefaultEnv == [overflow_checks |-> FALSE]

\* The skins of the source assets, each with the set of unnamed nodes of
\* its asset.
SourceSkins ==
    UNION {{<<[name |-> v[1], skeleton |-> sk, joints |-> js,
               inverse_bind_matrices |-> v[3]], v[2]>> :
                sk \in SkeletonRoots, v \in SkinVariants(Len(js))} :
           js \in JointLists}

InitSkin ==
    /\ \E ch \in SceneGraphs, s \in SourceSkins :
          gltf = [children |-> ch, unnamed |-> s[2], skins |-> <<s[1]>>]
    /\ buffers = LoadedBuffers
    /\ skins = <<>>
    /\ env = DefaultEnv
    /\ result = NoResult
    /\ pc = "start"

\* convert::skin::get on the asset.
GetSkins ==
    /\ pc = "start"
    /\ result' = skin_get(gltf, buffers)
    /\ skins' = IF IsOk(result') THEN result'.val ELSE skins
    /\ pc' = "done"
    /\ UNCHANGED <<gltf, buffers, env>>

NextSkin == GetSkins

SpecSkin == InitSkin /\ [][NextSkin]_vars

----------------------------------------------------------------------------
(* The animations the sampler is run on, and the skins it resolves the     *)
(* target nodes in.                                                        *)

\* The timestamp lists of a sampler's input accessor: in ascending order,
\* repetitions included.
RECURSIVE AscendingLists(_, _)
AscendingLists(S, n) ==
    IF n = 0 THEN {<<>>}
    ELSE LET shorter == AscendingLists(S, n - 1)
             longest == {l \in shorter : Len(l) = n - 1}
         IN shorter
            \cup UNION {{<<x>> \o l : l \in {l \in longest : l # <<>> => x <= l[1]}} :
                           x \in S}

TimeLists == AscendingLists(0 .. 2, MaxTimes)

ValueAccessor(dimensions, data_type, count) ==
    [dimensions |-> dimensions, data_type |-> data_type, count |-> count]

\* The output accessor of a sampler, by the property it animates: vectors
\* of every count; rotations and weights with fewer, as many and more
\* elements than there can be timestamps, and of the other component types
\* and shapes.
OutputAccessors(path) ==
    LET counts == 0 .. MaxValues
        some == {0, MaxTimes, MaxValues}
    IN CASE path \in {"Translation", "Scale"} ->
              {ValueAccessor("Vec3", "F32", c) : c \in counts}
         [] path = "Rotation" ->
              {ValueAccessor("Vec4", "F32", c) : c \in some}
              \cup {ValueAccessor("Vec4", t, MaxTimes) : t \in {"U8", "I16", "U16", "U32"}}
              \cup {ValueAccessor("Vec3", "F32", MaxTimes)}
         [] path = "Weights" ->
              {ValueAccessor("Scalar", "F32", c) : c \in some}
              \cup {ValueAccessor("Scalar", t, MaxTimes) : t \in {"U8", "I16", "U16", "I8"}}
              \cup {ValueAccessor("Vec2", "F32", MaxTimes)}

Interpolations == {"Linear", "Step", "CatmullRomSpline", "CubicSpline"}

TrsProperties == {"Translation", "Rotation", "Scale", "Weights"}

\* Nodes a channel targets: joints of the skins below at differing
\* positions, and nodes past the index range.
TargetNodes == {0, 1, 3, U16_MAX + 1}

Channels ==
    UNION {{[sampler |-> [interpolation |-> i, input |-> [times |-> t], output |-> o],
             target |-> [node |-> n, path |-> p]] :
                i \in Interpolations, t \in TimeLists, n \in TargetNodes,
                o \in OutputAccessors(p)} :
           p \in TrsProperties}

\* Named animations of one channel, and nameless ones.
Animations ==
    {[name |-> Some("animation"), channels |-> <<c>>] : c \in Channels}
    \cup {[name |-> None, channels |-> <<c>>] :
              c \in {c \in Channels : /\ c.sampler.input.times \in {<<>>, <<0, 1>>}
                                      /\ c.sampler.output.count = MaxTimes
                                      /\ c.sampler.output.data_type = "F32"
                                      /\ c.target.node \in {0, 3}}}

\* The Skin built from a joint list in a scene graph without edges, with the
\* first joint as its skeleton root.
SkinOf(joints) ==
    get_skin([children |-> ChildrenOf([n \in Nodes |-> -1]), unnamed |-> {}],
             LoadedBuffers,
             [name |-> Some("skin"), skeleton |-> Some(joints[1]),
              joints |-> joints, inverse_bind_matrices |-> None]).val

\* The joint lists of the skins handed to the sampler, with the build's
\* overflow checks: short skins that share a node, skins that reach and
\* exceed the index range, and one of the latter followed by a short skin
\* on its last node.
JointListsAndEnvs ==
    LET A == <<0, 1>>
        B == <<1, 2>>
        Full == FirstNodes(U16_MAX + 1)
        Over == FirstNodes(U16_MAX + 2)
        Last == <<U16_MAX + 1, 0>>
    IN {<<l, FALSE>> : l \in {<<>>, <<A>>, <<A, B>>, <<B, A>>, <<Full>>, <<Over>>,
                              <<Over, Last>>}}
       \cup {<<l, TRUE>> : l \in {<<B, A>>, <<Full>>, <<Over>>, <<Over, Last>>}}

SkinsAndEnvs ==
    {<<[k \in DOMAIN le[1] |-> SkinOf(le[1][k])], le[2]>> : le \in JointListsAndEnvs}

\* Assets of two animations, each of them one that is sampled, one without
\* a name, one whose target node is past the index range, or one whose
\* weights are of a component type that cannot be read.
ListedAnimations ==
    LET channel(node, path, output) ==
            [sampler |-> [interpolation |-> "Linear",
                          input |-> [times |-> <<0, 1>>], output |-> output],
             target |-> [node |-> node, path |-> path]]
        vectors == ValueAccessor("Vec3", "F32", 2)
    IN {[name |-> Some("animation"), channels |-> <<channel(1, "Translation", vectors)>>],
        [name |-> None, channels |-> <<channel(1, "Translation", vectors)>>],
        [name |-> Some("animation"),
         channels |-> <<channel(U16_MAX + 1, "Scale", vectors)>>],
        [name |-> Some("animation"),
         channels |-> <<channel(1, "Weights", ValueAccessor("Scalar", "I8", MaxTimes))>>]}

AnimationLists ==
    {<<a>> : a \in Animations}
    \cup {<<a, b>> : a \in ListedAnimations, b \in ListedAnimations}

InitAnim ==
    /\ \E se \in SkinsAndEnvs, as \in AnimationLists :
          /\ gltf = [animations |-> as]
          /\ skins = se[1]
          /\ env = [overflow_checks |-> se[2]]
    /\ buffers = LoadedBuffers
    /\ result = NoResult
    /\ pc = "start"

\* convert::animation::get on the asset and the skins.
GetAnimations ==
    /\ pc = "start"
    /\ result' = animation_get(env, gltf, skins)
    /\ pc' = "done"
    /\ UNCHANGED <<gltf, buffers, skins, env>>

NextAnim == GetAnimations

SpecAnim == InitAnim /\ [][NextAnim]_vars

----------------------------------------------------------------------------
(* The primitives the vertex attribute assembler is run on.                *)

\* An accessor over a view of its own that starts at view_offset.
VertexAccessor(dimensions, data_type, count, view_offset, stride, uri) ==
    [dimensions |-> dimensions, data_type |-> data_type, count |-> count,
     offset |-> 0,
     view |-> [uri |-> uri, offset |-> view_offset,
               length |-> count * ComponentSize(data_type) * Multiplicity(dimensions),
               stride |-> stride]]

VertexCounts == 0 .. MaxVertices

\* What a primitive has under each semantic: nothing, or an accessor of the
\* shape and component type the decoder takes (with differing counts, with
\* a stride, in a buffer that is not loaded, reaching past the end of its
\* buffer), or one of another shape or component type.
PositionAccessors ==
    {None}
    \cup {Some(VertexAccessor("Vec3", "F32", c, 0, None, MainBuffer)) : c \in VertexCounts}
    \cup {Some(VertexAccessor("Vec3", "F32", MaxVertices, 0, Some(16), MainBuffer)),
          Some(VertexAccessor("Vec2", "F32", MaxVertices, 0, None, MainBuffer)),
          Some(VertexAccessor("Vec3", "U16", MaxVertices, 0, None, MainBuffer)),
          Some(VertexAccessor("Vec3", "F32", MaxVertices, 0, None, "missing.bin")),
          Some(VertexAccessor("Vec3", "F32", MaxVertices,
                              BufferLength - 12 * MaxVertices + 4, None, MainBuffer))}

NormalAccessors ==
    {None}
    \cup {Some(VertexAccessor("Vec3", "F32", c, 64, None, MainBuffer)) : c \in VertexCounts}
    \cup {Some(VertexAccessor("Vec4", "F32", MaxVertices, 64, None, MainBuffer)),
          Some(VertexAccessor("Vec3", "U8", MaxVertices, 64, None, MainBuffer)),
          Some(VertexAccessor("Vec3", "F32", MaxVertices, 64, None, "missing.bin"))}

TexCoord0Accessors ==
    {None}
    \cup {Some(VertexAccessor("Vec2", "F32", c, 128, None, MainBuffer)) : c \in VertexCounts}
    \cup {Some(VertexAccessor("Vec2", "U8", MaxVertices, 130, None, MainBuffer)),
          Some(VertexAccessor("Vec2", "U16", MaxVertices, 130, None, MainBuffer)),
          Some(VertexAccessor("Vec3", "F32", MaxVertices, 128, None, MainBuffer)),
          Some(VertexAccessor("Vec2", "I16", MaxVertices, 128, None, MainBuffer))}

TexCoord1Accessors ==
    {None,
     Some(VertexAccessor("Vec2", "F32", MaxVertices, 196, None, MainBuffer)),
     Some(VertexAccessor("Vec2", "U8", 1, 198, None, MainBuffer))}

TangentAccessors ==
    {None,
     Some(VertexAccessor("Vec4", "F32", MaxVertices, 256, None, MainBuffer)),
     Some(VertexAccessor("Vec4", "F32", 1, 256, None, MainBuffer)),
     Some(VertexAccessor("Vec4", "F32", MaxVertices, 260, Some(20), MainBuffer)),
     Some(VertexAccessor("Vec4", "U16", MaxVertices, 256, None, MainBuffer))}

JointAccessors ==
    {None,
     Some(VertexAccessor("Vec4", "U8", MaxVertices, 322, None, MainBuffer)),
     Some(VertexAccessor("Vec4", "U16", 1, 322, None, MainBuffer)),
     Some(VertexAccessor("Vec4", "F32", MaxVertices, 320, None, MainBuffer))}

WeightAccessors ==
    {None,
     Some(VertexAccessor("Vec4", "F32", MaxVertices, 384, None, MainBuffer))}

Semantics ==
    {"POSITION", "NORMAL", "TEXCOORD_0", "TEXCOORD_1", "TANGENT", "JOINTS_0", "WEIGHTS_0"}

Primitives ==
    {[attributes |->
         [sem \in Semantics |->
             CASE sem = "POSITION" -> a[1]
               [] sem = "NORMAL" -> a[2]
               [] sem = "TEXCOORD_0" -> a[3]
               [] sem = "TEXCOORD_1" -> a[4]
               [] sem = "TANGENT" -> a[5]
               [] sem = "JOINTS_0" -> a[6]
               [] sem = "WEIGHTS_0" -> a[7]]] :
        a \in PositionAccessors \X NormalAccessors \X TexCoord0Accessors
              \X TexCoord1Accessors \X TangentAccessors \X JointAccessors
              \X WeightAccessors}

InitPrim ==
    /\ \E prim \in Primitives, has_joints \in BOOLEAN :
          gltf = [primitive |-> prim, has_joints |-> has_joints]
    /\ buffers = LoadedBuffers
    /\ skins = <<>>
    /\ env = DefaultEnv
    /\ result = NoResult
    /\ pc = "start"

\* convert::primitive::get_vertex_attributes on the primitive.
GetVertexAttributes ==
    /\ pc = "start"
    /\ result' = get_vertex_attributes(gltf.primitive, buffers, gltf.has_joints)
    /\ pc' = "done"
    /\ UNCHANGED <<gltf, buffers, skins, env>>

NextPrim == GetVertexAttributes

SpecPrim == InitPrim /\ [][NextPrim]_vars

----------------------------------------------------------------------------
(* The skins and indices the Skin's index mapping is asked for.            *)

\* Skins of few joints, of joints listed out of node order, and of as many
\* joints as the index range holds, one more and two more.
IndexedSkins ==
    {SkinOf(l) : l \in {<<0, 1>>, <<2, 0, 1>>, FirstNodes(U16_MAX),
                        FirstNodes(U16_MAX + 1), FirstNodes(U16_MAX + 2)}}

InitIndex ==
    /\ \E skin \in IndexedSkins, e \in [overflow_checks : BOOLEAN],
          node_index \in Nodes \cup {U16_MAX + 2}, joint_index \in 0 .. U16_MAX :
          /\ skins = <<skin>>
          /\ env = e
          /\ gltf = [node_index |-> node_index, joint_index |-> joint_index]
    /\ buffers = LoadedBuffers
    /\ result = NoResult
    /\ pc = "start"

\* Skin::get_joint_index and Skin::get_node_index on the skin.
GetIndices ==
    /\ pc = "start"
    /\ result' = [joint_index |-> Skin_get_joint_index(env, skins[1], gltf.node_index),
                  node_index |-> Skin_get_node_index(skins[1], gltf.joint_index)]
    /\ pc' = "done"
    /\ UNCHANGED <<gltf, buffers, skins, env>>

NextIndex == GetIndices

SpecIndex == InitIndex /\ [][NextIndex]_vars

----------------------------------------------------------------------------
(* The components get_weights and get_texcoords quantise to 16 bits.       *)

\* A component as stored: every u8, the u16 of the same normalised values
\* (x / 255 = 257 x / 65535), and the f32 words of the buffer files.
StoredComponents(data_type) ==
    CASE data_type = "U8" -> 0 .. U8_MAX
      [] data_type = "U16" -> {257 * x : x \in 0 .. U8_MAX}
      [] data_type = "F32" -> {FloatWords[k] : k \in DOMAIN FloatWords}

\* The arms of get_weights and get_texcoords by component type.
Quantized(data_type, x) ==
    CASE data_type = "U8" -> ShiftU8(x)
      [] data_type = "U16" -> x
      [] data_type = "F32" -> QuantizeF32(x)

InitQuant ==
    /\ \E attribute \in {"weights", "texcoords"}, data_type \in {"U8", "U16", "F32"} :
          \E x \in StoredComponents(data_type) :
              gltf = [attribute |-> attribute, data_type |-> data_type, raw |-> x]
    /\ buffers = LoadedBuffers
    /\ skins = <<>>
    /\ env = DefaultEnv
    /\ result = NoResult
    /\ pc = "start"

\* One weight, or one texture coordinate (s, t) with the component stored
\* for both s and t; t is flipped.
Requantize ==
    /\ pc = "start"
    /\ result' = IF gltf.attribute = "weights"
                 THEN Ok(<<Quantized(gltf.data_type, gltf.raw)>>)
                 ELSE Ok(<<Quantized(gltf.data_type, gltf.raw),
                           U16_MAX_VALUE - Quantized(gltf.data_type, gltf.raw)>>)
    /\ pc' = "done"
    /\ UNCHANGED <<gltf, buffers, skins, env>>

NextQuant == Requantize

SpecQuant == InitQuant /\ [][NextQuant]_vars

----------------------------------------------------------------------------
(* The joint streams the joint decoders of the source are run on.          *)

\* The files of the source that hold a get_joints.
Revisions == {"primitive.rs", "mesh.rs", "lib.rs"}

\* JOINTS_0 accessors: of u8 and u16 indices at differing places of the
\* buffer, packed or with a stride, of another component type or shape, or
\* none.
JointStreams ==
    {None,
     Some(VertexAccessor("Vec4", "F32", MaxVertices, 320, None, MainBuffer)),
     Some(VertexAccessor("Vec3", "U8", MaxVertices, 320, None, MainBuffer)),
     Some(VertexAccessor("Vec4", "U8", MaxVertices, 322, Some(8), MainBuffer))}
    \cup {Some(VertexAccessor("Vec4", t, c, at, None, MainBuffer)) :
              t \in {"U8", "U16"}, c \in VertexCounts, at \in 320 .. 327}

InitJoints ==
    /\ \E revision \in Revisions, stream \in JointStreams :
          gltf = [primitive |->
                     [attributes |->
                         [sem \in Semantics |->
                             IF sem = "JOINTS_0" THEN stream ELSE None]],
                  revision |-> revision]
    /\ buffers = LoadedBuffers
    /\ skins = <<>>
    /\ env = DefaultEnv
    /\ result = NoResult
    /\ pc = "start"

\* get_joints of the revision on the primitive.
GetJoints ==
    /\ pc = "start"
    /\ result' = CASE gltf.revision = "primitive.rs" ->
                        get_joints(gltf.primitive, buffers)
                   [] gltf.revision = "mesh.rs" ->
                        mesh_get_joints(gltf.primitive, buffers)
                   [] gltf.revision = "lib.rs" ->
                        lib_get_joints(gltf.primitive, buffers)
    /\ pc' = "done"
    /\ UNCHANGED <<gltf, buffers, skins, env>>

NextJoints == GetJoints

SpecJoints == InitJoints /\ [][NextJoints]_vars

----------------------------------------------------------------------------
(* The integer components the sampler's iterators normalise.               *)

\* The components normalised: every value of the component type as a
\* weight, and the ends and the middle of its range as a rotation.
ComponentRange(path, data_type) ==
    CASE data_type = "I16" /\ path = "Weights" -> (-I16_MAX - 1) .. I16_MAX
      [] data_type = "I16" /\ path = "Rotation" ->
            {-I16_MAX - 1, -I16_MAX, -1, 0, 1, 16384, I16_MAX - 1, I16_MAX}
      [] data_type = "U8" -> 0 .. U8_MAX
      [] data_type = "U16" -> {0, 1, 32768, U16_MAX_VALUE}

InitNorm ==
    /\ \E path \in {"Rotation", "Weights"}, data_type \in {"I16", "U8", "U16"} :
          \E x \in ComponentRange(path, data_type) :
              gltf = [path |-> path, data_type |-> data_type, raw |-> x]
    /\ buffers = LoadedBuffers
    /\ skins = <<>>
    /\ env = DefaultEnv
    /\ result = NoResult
    /\ pc = "start"

\* RotationsF32::next on an element whose four components are the raw
\* value, or WeightsF32::next on the raw value.
NextItem ==
    /\ pc = "start"
    /\ result' = IF gltf.path = "Rotation"
                 THEN Ok(RotationItem(gltf.data_type, [c \in 1 .. 4 |-> gltf.raw]))
                 ELSE Ok(<<WeightItem(gltf.data_type, gltf.raw)>>)
    /\ pc' = "done"
    /\ UNCHANGED <<gltf, buffers, skins, env>>

NextNorm == NextItem

SpecNorm == InitNorm /\ [][NextNorm]_vars

----------------------------------------------------------------------------
(* The morph targets the morph target decoder is run on.                   *)

\* accessor.sparse(): count replaced elements, their indices of index_type
\* in one view and their [f32; 3] values in another.
SparseStorage(count, index_type, index_offset, index_stride, value_offset,
              value_stride, uri) ==
    [count |-> count,
     indices |-> [index_type |-> index_type,
                  view |-> [uri |-> uri, offset |-> index_offset,
                            stride |-> index_stride]],
     values |-> [view |-> [uri |-> uri, offset |-> value_offset,
                           stride |-> value_stride]]]

MorphAccessor(dimensions, data_type, count, view_offset, stride, sparse) ==
    [dimensions |-> dimensions, data_type |-> data_type, count |-> count,
     offset |-> 0,
     view |-> [uri |-> MainBuffer, offset |-> view_offset, stride |-> stride,
               length |-> count * 12],
     sparse |-> sparse]

SparseCounts == 0 .. MaxSparse

\* The sparse storages: tightly packed or with a stride (larger than the
\* element, or smaller), for every index type, reaching past the end of the
\* buffer, in a buffer that is not loaded.
SparseStorages ==
    {SparseStorage(c, "U8", 7, None, 32, None, MainBuffer) : c \in SparseCounts}
    \cup {SparseStorage(c, "U16", 6, Some(4), 32, Some(16), MainBuffer) :
              c \in SparseCounts}
    \cup {SparseStorage(MaxSparse, "U8", 7, Some(4), 32, None, MainBuffer),
          SparseStorage(MaxSparse, "U32", 4, Some(8), 60, None, MainBuffer),
          SparseStorage(MaxSparse, "U32", 4, None, 60, Some(20), MainBuffer),
          SparseStorage(MaxSparse, "U16", 6, Some(1), 32, None, MainBuffer),
          SparseStorage(MaxSparse, "U16", 6, None, 32, Some(8), MainBuffer),
          SparseStorage(MaxSparse, "U8", BufferLength - 1, None, 32, None, MainBuffer),
          SparseStorage(MaxSparse, "U8", 7, None, 32, None, "missing.bin")}

\* What a morph target has for an attribute: nothing, a full accessor
\* (packed or with a stride), a sparse one, or an accessor that is not of
\* [f32; 3].
MorphAccessors ==
    {None,
     Some(MorphAccessor("Vec3", "F32", MaxSparse, 32, None, None)),
     Some(MorphAccessor("Vec3", "F32", MaxSparse, 32, Some(16), None)),
     Some(MorphAccessor("Vec2", "F32", MaxSparse, 32, None, None)),
     Some(MorphAccessor("Vec3", "U16", MaxSparse, 32, None, None))}
    \cup {Some(MorphAccessor("Vec3", "F32", MaxSparse + 1, 32, None, Some(sp))) :
              sp \in SparseStorages}

MorphTargets ==
    {[positions |-> a[1], normals |-> a[2], tangents |-> a[3]] :
        a \in MorphAccessors \X MorphAccessors \X {None, Some(MorphAccessor("Vec3", "F32", MaxSparse, 32, None, None)), Some(MorphAccessor("Vec3", "F32", MaxSparse + 1, 32, None, Some(SparseStorage(MaxSparse, "U16", 6, Some(4), 32, Some(16), MainBuffer))))}}

\* The build: with or without overflow checks and debug assertions.
Builds == [overflow_checks : BOOLEAN, debug_assertions : BOOLEAN]

InitMorph ==
    /\ \E e \in Builds, mt \in MorphTargets :
          /\ env = e
          /\ gltf = [primitive |-> [morph_targets |-> <<mt>>]]
    /\ buffers = LoadedBuffers
    /\ skins = <<>>
    /\ result = NoResult
    /\ pc = "start"

\* convert::morph_target::get on the primitive.
GetMorphTargets ==
    /\ pc = "start"
    /\ result' = morph_target_get(env, gltf.primitive, buffers)
    /\ pc' = "done"
    /\ UNCHANGED <<gltf, buffers, skins, env>>

NextMorph == GetMorphTargets

SpecMorph == InitMorph /\ [][NextMorph]_vars

----------------------------------------------------------------------------
(* Properties of the skeleton builder (SpecSkin).                          *)

\* The skin the builder was run on, and the Skin it returned.
SourceSkin == gltf.skins[1]
SkinBuilt == pc = "done" /\ IsOk(result)
BuiltSkin == result.val[1]

\* Node c is a direct child of node n in the scene graph.
IsChildOf(c, n) == \E k \in DOMAIN gltf.children[n] : gltf.children[n][k] = c

\* The joint-list positions (from 1) of the joints whose node has node c as
\* a direct child.
ParentPositions(c) ==
    {p \in 1 .. Len(SourceSkin.joints) : IsChildOf(c, SourceSkin.joints[p])}

\* Nothing but the joint count stands in the way of building the skin: it
\* and its joint nodes are named, the declared root is a joint, there is one
\* inverse bind matrix per joint, and every child of a joint node is a joint.
WellFormedSkin ==
    /\ SourceSkin.name # None
    /\ \A i \in DOMAIN SourceSkin.joints : SourceSkin.joints[i] \notin gltf.unnamed
    /\ SourceSkin.skeleton # None
    /\ \E i \in DOMAIN SourceSkin.joints : SourceSkin.joints[i] = SourceSkin.skeleton[1]
    /\ IsOk(get_inverse_bind_matrices(buffers, SourceSkin))
    /\ Len(get_inverse_bind_matrices(buffers, SourceSkin).val) = Len(SourceSkin.joints)
    /\ \A i \in DOMAIN SourceSkin.joints : \A c \in Nodes :
          IsChildOf(c, SourceSkin.joints[i]) =>
              \E k \in DOMAIN SourceSkin.joints : SourceSkin.joints[k] = c

\* C3: a skin whose joint list has one entry more than the index type can
\* count (65536 for u16) fails with TooManyJoints, and one with exactly
\* u16::MAX entries (65535) is built, with every joint kept.
C3_JointCountOverflow ==
    (pc = "done" /\ WellFormedSkin) =>
        /\ Len(SourceSkin.joints) = U16_MAX + 1 => IsErr(result, "TooManyJoints")
        /\ Len(SourceSkin.joints) = U16_MAX =>
              (IsOk(result) /\ Len(BuiltSkin.joints) = U16_MAX)

\* C5: in every skin that is built, the parent recorded for a joint is the
\* list position of the (first) joint whose node has the joint's node as a
\* direct child, and the no-parent sentinel when no joint's node has; and
\* get_joint_index of the node of the joint at position k is k, for the
\* first joint of that node.
C5_ParentResolution ==
    SkinBuilt =>
        \A j \in DOMAIN BuiltSkin.joints :
            /\ BuiltSkin.joints[j].parent =
                  (IF ParentPositions(SourceSkin.joints[j]) = {}
                   THEN U16_MAX
                   ELSE Min(ParentPositions(SourceSkin.joints[j])) - 1)
            /\ (j - 1 <= U16_MAX
                /\ \A i \in 1 .. (j - 1) :
                      SourceSkin.joints[i] # SourceSkin.joints[j])
               => \A checks \in BOOLEAN :
                     Skin_get_joint_index([overflow_checks |-> checks], BuiltSkin,
                                          SourceSkin.joints[j])
                        = Ok(Some(j - 1))

\* C5, the case of the claim: the chain root -> A -> B -> C, listed in that
\* order, is built with the parents [sentinel, 0, 1, 2].
C5_Witness ==
    /\ SkinBuilt
    /\ SourceSkin.joints = <<0, 1, 2, 3>>
    /\ \A n \in 0 .. 2 : gltf.children[n] = <<n + 1>>
    /\ [j \in 1 .. 4 |-> BuiltSkin.joints[j].parent] = <<U16_MAX, 0, 1, 2>>

\* C6: every skin that is built has as many joints as the source joint
\* list, in the same order, and every parent index other than the sentinel
\* is below that joint count.
C6_JointsDense ==
    SkinBuilt =>
        /\ Len(BuiltSkin.joints) = Len(SourceSkin.joints)
        /\ \A i \in DOMAIN BuiltSkin.joints :
              /\ BuiltSkin.joints[i].old_index = SourceSkin.joints[i]
              /\ \/ BuiltSkin.joints[i].parent = U16_MAX
                 \/ BuiltSkin.joints[i].parent < Len(BuiltSkin.joints)

\* The declared skeleton root is missing, or is not one of the joint nodes.
RootNotAJoint ==
    \/ SourceSkin.skeleton = None
    \/ \A i \in DOMAIN SourceSkin.joints :
          SourceSkin.joints[i] # SourceSkin.skeleton[1]

\* C7 as stated: get_skin fails with NoSkeleton whenever the skin declares
\* no skeleton root or the declared root is not one of its joint nodes.
C7_NoSkeleton_AsStated ==
    (pc = "done" /\ RootNotAJoint) => IsErr(result, "NoSkeleton")

\* C7, amended: in both cases no Skin is returned; the failure is NoSkeleton
\* when the skin has a name, and NoName (checked first) when it has none.
C7_NoSkeleton ==
    (pc = "done" /\ RootNotAJoint) =>
        IF SourceSkin.name = None
        THEN IsErr(result, "NoName")
        ELSE IsErr(result, "NoSkeleton")

\* C7: a named skin whose declared root is a node outside its non-empty
\* joint list was rejected with NoSkeleton.
C7_Witness ==
    /\ pc = "done"
    /\ SourceSkin.name # None
    /\ SourceSkin.skeleton # None
    /\ SourceSkin.joints # <<>>
    /\ RootNotAJoint
    /\ IsErr(result, "NoSkeleton")

\* C8: in every skin that is built, the joint at root_index has the
\* no-parent sentinel as its parent.
C8_RootHasNoParent ==
    (SkinBuilt /\ BuiltSkin.root_index + 1 \in DOMAIN BuiltSkin.joints) =>
        BuiltSkin.joints[BuiltSkin.root_index + 1].parent = U16_MAX



\* A joint node of the skin has a direct child that is not in the joint
\* list.
ChildOutsideSkin ==
    \E p \in DOMAIN SourceSkin.joints :
        \E k \in DOMAIN gltf.children[SourceSkin.joints[p]] :
            \A q \in DOMAIN SourceSkin.joints :
                SourceSkin.joints[q] # gltf.children[SourceSkin.joints[p]][k]

\* C25: get_parent_indices returns for every skin, also for one in which a
\* joint node has a direct child that is not in the joint list: the build
\* of a skin whose name, root, joint names and inverse bind matrices are
\* obtained does not abort, and the parent list it gets has one entry per
\* joint.
C25_ParentIndicesTotal ==
    (/\ pc = "done"
     /\ SourceSkin.name # None
     /\ IsOk(get_root_index(SourceSkin))
     /\ IsOk(get_joint_names(gltf, SourceSkin))
     /\ IsOk(get_inverse_bind_matrices(buffers, SourceSkin)))
    => /\ result.tag # "Panic"
       /\ IsOk(get_parent_indices(gltf, SourceSkin)) =>
              Len(get_parent_indices(gltf, SourceSkin).val) = Len(SourceSkin.joints)

----------------------------------------------------------------------------
(* Properties of the animation sampler (SpecAnim).                         *)

\* The channel the sampler was run on, and the Channel it returned.
SourceChannel == gltf.animations[1].channels[1]
SourceTimes == SourceChannel.sampler.input.times
IsSpline == SourceChannel.sampler.interpolation \in {"CatmullRomSpline", "CubicSpline"}
ChannelSampled == pc = "done" /\ IsOk(result)
SampledChannel == result.val[1].channels[1]
SampledTimes == [i \in DOMAIN SampledChannel.data |-> SampledChannel.data[i].time_stamp]

\* The timestamps the claims expect on the sampled channel: the source's
\* t0 .. tn, followed for a spline by t0 and tn.
ExpectedTimes ==
    IF IsSpline
    THEN SourceTimes \o <<SourceTimes[1], SourceTimes[Len(SourceTimes)]>>
    ELSE SourceTimes

\* C1: for a CatmullRom or cubic spline channel with the timestamps
\* [t0 .. tn], n >= 0, the timestamp list the values are paired with is
\* [t0 .. tn, t0, tn]; for Linear and Step it is the source list unchanged.
\* The sampled channel carries that list, up to the number of its values.
C1_SplinePadding ==
    (pc = "done" /\ (IsSpline => SourceTimes # <<>>)) =>
        /\ SamplerTimes(SourceChannel.sampler).val[2] = ExpectedTimes
        /\ IsOk(result) =>
              SampledTimes
                  = SubSeq(ExpectedTimes, 1,
                           MinOf(Len(ExpectedTimes), SourceChannel.sampler.output.count))

\* C1, the case of the claim: the spline timestamps [0, 1, 2] are sampled as
\* [0, 1, 2, 0, 2].
C1_Witness ==
    /\ ChannelSampled
    /\ IsSpline
    /\ SourceTimes = <<0, 1, 2>>
    /\ SampledTimes = <<0, 1, 2, 0, 2>>

\* C2: a channel whose timestamp list (after the spline padding) and value
\* list differ in length is not sampled: the mismatch is an error, never a
\* channel cut to the shorter list.
C2_LengthMismatchFails ==
    (pc = "done" /\ (IsSpline => SourceTimes # <<>>)
        /\ Len(ExpectedTimes) # SourceChannel.sampler.output.count)
    => ~IsOk(result)

\* The target node is a joint of one of the skins.
TargetIsJoint ==
    \E s \in DOMAIN skins : \E j \in DOMAIN skins[s].joints :
        skins[s].joints[j].old_index = SourceChannel.target.node

\* C9: sampling a named animation's channel whose target node is not a joint
\* of any skin fails with InvalidJoint; when the node is a joint of some
\* skin, the sampled channel carries the joint index of that node.
C9_InvalidJoint ==
    (pc = "done" /\ gltf.animations[1].name # None) =>
        /\ ~TargetIsJoint => IsErr(result, "InvalidJoint")
        /\ (TargetIsJoint /\ IsOk(result)) =>
              \E s \in DOMAIN skins :
                  /\ SampledChannel.joint_index < Len(skins[s].joints)
                  /\ skins[s].joints[SampledChannel.joint_index + 1].old_index
                        = SourceChannel.target.node


\* The output accessor of the channel is not one its path's values can be
\* read from: rotations are Vec4 and weights Scalar, of F32, U8, I16 or U16.
UnsupportedOutput ==
    LET output == SourceChannel.sampler.output
        path == SourceChannel.target.path
    IN /\ path \in {"Rotation", "Weights"}
       /\ \/ output.dimensions # (IF path = "Rotation" THEN "Vec4" ELSE "Scalar")
          \/ output.data_type \notin {"F32", "U8", "I16", "U16"}

\* C18: sampling a rotation or weights channel whose output accessor has an
\* unsupported component type or shape ends in an error value, never in a
\* panic; stated for the channels of a named animation whose timestamps
\* are read and whose target node is found among the joints.
C18_UnsupportedOutputIsError ==
    (/\ pc = "done" /\ UnsupportedOutput
     /\ gltf.animations[1].name # None
     /\ IsOk(SamplerTimes(SourceChannel.sampler))
     /\ IsOk(get_joint_index(env, SourceChannel.target.node, skins)))
    => result.tag = "Err"


\* What get_animation makes of each animation of the asset, in order.
AnimationOutcomes ==
    [i \in DOMAIN gltf.animations |->
        get_animation(env, gltf.animations[i], skins)]

\* C20: convert::animation::get is all or nothing.  When the conversion of
\* some animation fails with an error, the call returns the error of the
\* first animation (in the order of the asset) that fails with one; it
\* returns a list only when every animation is converted, and then the
\* whole list.
C20_AllOrNothing ==
    pc = "done" =>
        LET failing == {i \in DOMAIN gltf.animations :
                           AnimationOutcomes[i].tag = "Err"}
        IN /\ failing # {} => result = AnimationOutcomes[Min(failing)]
           /\ IsOk(result) =>
                 /\ failing = {}
                 /\ Len(result.val) = Len(gltf.animations)


\* C26: sampling a CatmullRomSpline or CubicSpline channel of a named
\* animation whose input accessor holds no timestamps (and whose output
\* accessor is one the values can be read from) does not abort; it ends in
\* an error value or in a channel without timestamps.
C26_EmptySplineTimes ==
    (/\ pc = "done"
     /\ gltf.animations[1].name # None
     /\ IsSpline /\ SourceTimes = <<>>
     /\ ~UnsupportedOutput)
    => /\ result.tag \in {"Ok", "Err"}
       /\ IsOk(result) => SampledChannel.data = <<>>

----------------------------------------------------------------------------
(* Properties of the vertex attribute assembler (SpecPrim).                *)

Declared(semantic) == PrimitiveGet(gltf.primitive, semantic) # None

\* The lengths of the streams of the VertexAttributes that was returned.
StreamLengths ==
    LET v == result.val
    IN {Len(v.positions), Len(v.normals), Len(v.texcoords_0)}
       \cup (IF v.texcoords_1 = None THEN {} ELSE {Len(v.texcoords_1[1])})
       \cup (IF v.tangents = None THEN {} ELSE {Len(v.tangents[1])})
       \cup (IF v.bones = None THEN {}
             ELSE {Len(v.bones[1].joints), Len(v.bones[1].weights)})

\* C4: a primitive whose vertex streams differ in element count (2
\* positions and 1 normal, say) is rejected: a VertexAttributes that is
\* returned has streams of one and the same length.
C4_StreamLengthsAgree ==
    (pc = "done" /\ IsOk(result)) => Cardinality(StreamLengths) = 1

\* A required stream is not declared.
RequiredUndeclared ==
    ~Declared("POSITION") \/ ~Declared("NORMAL") \/ ~Declared("TEXCOORD_0")

EarlierStreamsDecode ==
    /\ Declared("POSITION") => IsOk(get_positions(gltf.primitive, buffers))
    /\ (Declared("POSITION") /\ Declared("NORMAL")) =>
           IsOk(get_normals(gltf.primitive, buffers))

RequiredStreamsDecode ==
    /\ IsOk(get_positions(gltf.primitive, buffers))
    /\ IsOk(get_normals(gltf.primitive, buffers))
    /\ IsOk(get_texcoords(gltf.primitive, 0, buffers))

\* C11: in a VertexAttributes that is returned, texcoords_1 is present iff
\* the primitive declares TEXCOORD_1 and tangents is present iff it declares
\* TANGENT, each whatever the other is; neither has a say in whether bones
\* are present, which follows has_joints alone.  A primitive that declares
\* only position, normal and TEXCOORD_0 (all decodable), assembled with
\* has_joints false, yields a VertexAttributes with all three parts absent.
C11_OptionalPresence ==
    pc = "done" =>
        /\ IsOk(result) =>
              /\ (result.val.texcoords_1 # None) = Declared("TEXCOORD_1")
              /\ (result.val.tangents # None) = Declared("TANGENT")
              /\ (result.val.bones # None) = gltf.has_joints
        /\ (/\ RequiredStreamsDecode
            /\ ~Declared("TEXCOORD_1") /\ ~Declared("TANGENT")
            /\ ~Declared("JOINTS_0") /\ ~Declared("WEIGHTS_0")
            /\ ~gltf.has_joints)
           => /\ IsOk(result)
              /\ result.val.texcoords_1 = None
              /\ result.val.tangents = None
              /\ result.val.bones = None

\* C11, the case of the claim: a primitive that declares the tangents as its
\* only optional attribute is assembled with the tangents present and
\* texcoords_1 and bones absent.
C11_Witness ==
    /\ pc = "done" /\ IsOk(result)
    /\ Declared("TANGENT") /\ ~Declared("TEXCOORD_1")
    /\ ~Declared("JOINTS_0") /\ ~Declared("WEIGHTS_0")
    /\ result.val.tangents # None
    /\ Len(result.val.tangents[1]) = MaxVertices
    /\ result.val.texcoords_1 = None
    /\ result.val.bones = None

\* C12: a primitive without bone data is not an error.  When has_joints is
\* true, the primitive declares neither JOINTS_0 nor WEIGHTS_0 and all of
\* its other streams decode (the same primitive is assembled when no bones
\* are asked for), the call returns a VertexAttributes with bones absent.
C12_BonesAbsenceIsBranch ==
    (/\ pc = "done"
     /\ gltf.has_joints
     /\ ~Declared("JOINTS_0") /\ ~Declared("WEIGHTS_0")
     /\ IsOk(get_vertex_attributes(gltf.primitive, buffers, FALSE)))
    => (IsOk(result) /\ result.val.bones = None)

\* C13: the texcoords_1 of a VertexAttributes that is returned is the
\* decoding of the primitive's TEXCOORD_1 accessor.
C13_TexCoord1FromItsAccessor ==
    (pc = "done" /\ IsOk(result) /\ Declared("TEXCOORD_1")) =>
        /\ IsOk(get_texcoords(gltf.primitive, 1, buffers))
        /\ result.val.texcoords_1
              = Some(get_texcoords(gltf.primitive, 1, buffers).val)

\* C14: the bones of a VertexAttributes that is returned for a primitive
\* declaring JOINTS_0 and WEIGHTS_0 hold the decoding of the JOINTS_0
\* accessor as joints and the decoding of the WEIGHTS_0 accessor as weights.
C14_WeightsFromTheirAccessor ==
    (/\ pc = "done" /\ IsOk(result) /\ result.val.bones # None
     /\ Declared("JOINTS_0") /\ Declared("WEIGHTS_0")) =>
        /\ result.val.bones[1].joints = get_joints(gltf.primitive, buffers).val
        /\ IsOk(WeightsFrom(PrimitiveGet(gltf.primitive, "WEIGHTS_0"), buffers))
        /\ result.val.bones[1].weights
              = WeightsFrom(PrimitiveGet(gltf.primitive, "WEIGHTS_0"), buffers).val


\* The stride in effect for an accessor, and the place in its buffer of the
\* first byte of its i-th element (from 1).
EffectiveStride(access) ==
    IF access.view.stride = None
    THEN AccessorSize(access) ELSE access.view.stride[1]

ElementStart(access, i) ==
    access.view.offset + access.offset + (i - 1) * EffectiveStride(access)

ExpectedShape(semantic) ==
    CASE semantic \in {"POSITION", "NORMAL"} -> "Vec3"
      [] semantic \in {"TEXCOORD_0", "TEXCOORD_1"} -> "Vec2"
      [] semantic \in {"TANGENT", "JOINTS_0", "WEIGHTS_0"} -> "Vec4"

SupportedTypes(semantic) ==
    CASE semantic \in {"POSITION", "NORMAL", "TANGENT"} -> {"F32"}
      [] semantic \in {"TEXCOORD_0", "TEXCOORD_1", "WEIGHTS_0"} -> {"U8", "U16", "F32"}
      [] semantic = "JOINTS_0" -> {"U8", "U16"}

\* The attribute is declared with another shape or component type than its
\* decoder takes, and the error that stands for the mismatch.
Mismatch(semantic) ==
    /\ Declared(semantic)
    /\ \/ PrimitiveGet(gltf.primitive, semantic)[1].dimensions
            # ExpectedShape(semantic)
       \/ PrimitiveGet(gltf.primitive, semantic)[1].data_type
            \notin SupportedTypes(semantic)

MismatchError(semantic) ==
    IF PrimitiveGet(gltf.primitive, semantic)[1].dimensions
          # ExpectedShape(semantic)
    THEN Err("UnsupportedDimensions") ELSE Err("UnsupportedDataType")

\* The streams in the order get_vertex_attributes decodes them, and whether
\* the decoding of one lets the assembly go on to the next.
AssemblyOrder == <<"POSITION", "NORMAL", "TEXCOORD_0", "TANGENT", "JOINTS_0">>

StreamPasses(semantic) ==
    CASE semantic = "POSITION" -> IsOk(get_positions(gltf.primitive, buffers))
      [] semantic = "NORMAL" -> IsOk(get_normals(gltf.primitive, buffers))
      [] semantic = "TEXCOORD_0" -> IsOk(get_texcoords(gltf.primitive, 0, buffers))
      [] semantic = "TANGENT" ->
            ~Declared("TANGENT") \/ IsOk(get_tangents(gltf.primitive, buffers))
      [] semantic = "JOINTS_0" -> IsOk(get_joints(gltf.primitive, buffers))

\* C17: the first attribute in decoding order that is declared with a shape
\* or component type its decoder does not take ends the assembly with
\* UnsupportedDimensions when the shape is the wrong one and with
\* UnsupportedDataType when the shape is right and the component type is
\* the wrong one; the same for positions, normals, texture coordinates,
\* tangents and joints.
C17_UniformMismatchErrors ==
    pc = "done" =>
        \A k \in DOMAIN AssemblyOrder :
            (/\ Mismatch(AssemblyOrder[k])
             /\ AssemblyOrder[k] = "JOINTS_0" => gltf.has_joints
             /\ \A j \in 1 .. (k - 1) : StreamPasses(AssemblyOrder[j]))
            => result = MismatchError(AssemblyOrder[k])


\* The attribute's buffer is not loaded, or one of its elements reaches
\* past the end of the buffer.
OutOfBuffer(semantic) ==
    LET access == PrimitiveGet(gltf.primitive, semantic)[1]
    IN \/ access.view.uri \notin DOMAIN buffers
       \/ \E i \in 1 .. access.count :
              ElementStart(access, i) + AccessorSize(access)
                 > buffers[access.view.uri].length

\* C19: the first attribute in decoding order whose accessor (of the right
\* shape and component type) refers to a buffer that is not loaded, or to
\* bytes past the end of its buffer, ends the assembly in an error value:
\* never in a crash, never in a shortened stream.
C19_OutOfBufferIsError ==
    pc = "done" =>
        \A k \in DOMAIN AssemblyOrder :
            (/\ Declared(AssemblyOrder[k])
             /\ ~Mismatch(AssemblyOrder[k])
             /\ OutOfBuffer(AssemblyOrder[k])
             /\ AssemblyOrder[k] = "JOINTS_0" => gltf.has_joints
             /\ \A j \in 1 .. (k - 1) : StreamPasses(AssemblyOrder[j]))
            => result.tag = "Err"

----------------------------------------------------------------------------
(* Properties of the morph target decoder (SpecMorph).                     *)

MorphSlots == {"positions", "normals", "tangents"}

\* The accessor of a slot of the morph target, and the data returned for it.
SourceMorph(slot) == gltf.primitive.morph_targets[1][slot]
MorphData(slot) == result.val[1][slot][1]

\* The i-th element (from 1) of a sparse view of elements of size bytes
\* starts at the view's offset plus (i - 1) times its stride.
SparseElementStart(view, size, i) ==
    view.offset
      + (i - 1) * (IF view.stride = None THEN size ELSE view.stride[1])

\* The index of index_type read at a place of the buffer.
SparseIndexAt(index_type, inbuf, at) ==
    CASE index_type = "U8" -> AsU32(read_u8(inbuf, at))
      [] index_type = "U16" -> AsU32(read_u16(inbuf, at))
      [] index_type = "U32" -> read_u32(inbuf, at)

\* C16: for a sparse accessor whose index view or value view has a stride
\* that is no smaller than the element, the i-th sparse index is read from
\* the index view's start + i * stride and the i-th sparse value from the
\* value view's start + i * stride, each by its own stride: the bytes
\* between two elements are skipped.
C16_SparseStride ==
    (pc = "done" /\ IsOk(result)) =>
        \A slot \in MorphSlots :
            (SourceMorph(slot) # None /\ SourceMorph(slot)[1].sparse # None) =>
                LET sparse == SourceMorph(slot)[1].sparse[1]
                    index_size == IndexSize(sparse.indices.index_type)
                    inbuf == buffers[MainBuffer]
                IN (/\ SparseElementStart(sparse.indices.view, index_size, 2)
                          >= sparse.indices.view.offset + index_size
                    /\ SparseElementStart(sparse.values.view, 12, 2)
                          >= sparse.values.view.offset + 12) =>
                      /\ Len(MorphData(slot).data) = sparse.count
                      /\ \A i \in 1 .. sparse.count :
                            /\ MorphData(slot).data[i].index
                                  = SparseIndexAt(sparse.indices.index_type, inbuf,
                                        SparseElementStart(sparse.indices.view,
                                                           index_size, i))
                            /\ MorphData(slot).data[i].value
                                  = <<read_f32(inbuf, SparseElementStart(sparse.values.view, 12, i)),
                                      read_f32(inbuf, SparseElementStart(sparse.values.view, 12, i) + 4),
                                      read_f32(inbuf, SparseElementStart(sparse.values.view, 12, i) + 8)>>



\* C27: a sparse accessor with count 0 is read as an empty list or ends in
\* an error value: the end of its byte range, start + stride * (count - 1)
\* + size, neither underflows nor leaves the buffer.  Stated for a morph
\* target whose only attribute is the positions.
C27_EmptySparse ==
    (/\ pc = "done"
     /\ SourceMorph("positions") # None
     /\ SourceMorph("positions")[1].sparse # None
     /\ SourceMorph("positions")[1].sparse[1].count = 0
     /\ SourceMorph("normals") = None
     /\ SourceMorph("tangents") = None)
    => /\ result.tag \in {"Ok", "Err"}
       /\ IsOk(result) => MorphData("positions").data = <<>>

----------------------------------------------------------------------------
(* Properties of the joint decoders (SpecJoints).                          *)

\* C21: joint indices are never scaled.  In a joint stream that any of the
\* get_joints of the source returns, component c of element i is the
\* number stored for it: the u8 at its place (a number in 0 .. 255) or the
\* little-endian u16 at its place.
C21_JointsNotScaled ==
    (pc = "done" /\ IsOk(result)) =>
        LET access == PrimitiveGet(gltf.primitive, "JOINTS_0")[1]
            inbuf == buffers[MainBuffer]
        IN /\ Len(result.val) = access.count
           /\ \A i \in 1 .. access.count : \A c \in 1 .. 4 :
                  result.val[i][c]
                     = IF access.data_type = "U8"
                       THEN read_u8(inbuf, ElementStart(access, i) + (c - 1))
                       ELSE read_u16(inbuf, ElementStart(access, i) + 2 * (c - 1))


----------------------------------------------------------------------------
(* Properties of the normalisation of animation values (SpecNorm).         *)

\* The order of two f32 that are not NaN: by sign and magnitude.
F32Key(f) ==
    LET magnitude == (f[1] % 128) * 2^24 + f[2] * 2^16 + f[3] * 256 + f[4]
    IN IF f[1] >= 128 THEN -magnitude ELSE magnitude

F32_MINUS_ONE == <<191, 128, 0, 0>>

\* C22: a signed 16-bit component v is normalised to v / 32767: -32767
\* gives exactly -1, 0 gives 0, 32767 gives exactly 1, and a larger v gives
\* a larger f32; an unsigned 8-bit component gives 0 for 0 and 1 for 255.
\* Every component of a rotation is normalised as a weight is.
C22_Normalization ==
    pc = "done" =>
        LET x == gltf.raw
            value == result.val[1]
        IN /\ gltf.data_type = "I16" =>
                 /\ x = -I16_MAX => value = F32_MINUS_ONE
                 /\ x = 0 => value = F32_ZERO
                 /\ x = I16_MAX => value = F32_ONE
                 /\ x < I16_MAX =>
                       F32Key(value) < F32Key(WeightItem("I16", x + 1))
           /\ gltf.data_type = "U8" =>
                 /\ x = 0 => value = F32_ZERO
                 /\ x = U8_MAX => value = F32_ONE
           /\ gltf.path = "Rotation" =>
                 \A c \in 1 .. 4 : result.val[c] = WeightItem(gltf.data_type, x)

\* C22, the case of the claim: a rotation whose 16-bit components are
\* -32767 comes out with every component exactly -1.
C22_Witness ==
    /\ pc = "done"
    /\ gltf.path = "Rotation" /\ gltf.data_type = "I16" /\ gltf.raw = -I16_MAX
    /\ result.val = <<F32_MINUS_ONE, F32_MINUS_ONE, F32_MINUS_ONE, F32_MINUS_ONE>>


----------------------------------------------------------------------------
(* Properties of the Skin's index mapping (SpecIndex).                     *)

\* The positions (from 1) at which the skin lists the node as a joint.
JointPositions(skin, node_index) ==
    {p \in DOMAIN skin.joints : skin.joints[p].old_index = node_index}

\* C23: the mapping between node indices and joint indices of a Skin with N
\* joints (on pairwise distinct nodes).  get_node_index(j) is the node of
\* joint j for j < N and None for j >= N; get_joint_index(n) is the joint
\* index of node n when n is a joint, and then below N and mapped back to n
\* by get_node_index, and None when it is not; the 16-bit counter never
\* overflows.
C23_IndexMapping ==
    pc = "done" =>
        LET skin == skins[1]
            N == Len(skin.joints)
            at == JointPositions(skin, gltf.node_index)
        IN /\ gltf.joint_index < N =>
                 result.node_index = Some(skin.joints[gltf.joint_index + 1].old_index)
           /\ gltf.joint_index >= N => result.node_index = None
           /\ IsOk(result.joint_index)
           /\ at = {} => result.joint_index = Ok(None)
           /\ at # {} =>
                 /\ result.joint_index = Ok(Some(Min(at) - 1))
                 /\ result.joint_index.val[1] < N


----------------------------------------------------------------------------
(* Properties of the 16-bit quantisation (SpecQuant).                      *)

\* C24: the 16-bit output of a weight or a texture coordinate is the same
\* for the same normalised value in every encoding: a u8 x (x / 255) gives
\* what the u16 257 x (257 x / 65535) gives, which is 257 x itself; full
\* scale (u8 255, u16 65535, f32 1.0) gives 65535 and zero gives 0.
C24_ConsistentQuantization ==
    pc = "done" =>
        LET out == result.val[1]
        IN /\ gltf.data_type = "U8" =>
                 /\ out = 257 * gltf.raw
                 /\ gltf.raw = U8_MAX => out = U16_MAX_VALUE
                 /\ gltf.raw = 0 => out = 0
           /\ gltf.data_type = "U16" =>
                 /\ out = gltf.raw
                 /\ gltf.raw = U16_MAX_VALUE => out = U16_MAX_VALUE
           /\ gltf.data_type = "F32" =>
                 /\ gltf.raw = F32_ONE => out = U16_MAX_VALUE
                 /\ gltf.raw = F32_ZERO => out = 0


----------------------------------------------------------------------------
(* Properties of the sampler's joint lookup (SpecAnim).                    *)

\* The skins (by position in the list) that have the node as a joint.
SkinsContaining(node_index) ==
    {i \in DOMAIN skins : JointPositions(skins[i], node_index) # {}}

\* The joint index of the node within the first skin that contains it.
IndexInFirstSkin(node_index) ==
    LET first == CHOOSE i \in SkinsContaining(node_index) :
                     \A j \in SkinsContaining(node_index) : i <= j
        position == CHOOSE p \in JointPositions(skins[first], node_index) :
                        \A q \in JointPositions(skins[first], node_index) : p <= q
    IN position - 1

\* C28: when the animated node is a joint of more than one skin, the
\* sampler's get_joint_index returns the node's joint index within the first
\* skin of the list that contains it, and the sampled channel carries that
\* index.
C28_FirstSkinWins ==
    (/\ pc = "done"
     /\ Len(gltf.animations) = 1
     /\ Cardinality(SkinsContaining(SourceChannel.target.node)) > 1)
    => /\ get_joint_index(env, SourceChannel.target.node, skins)
              = Ok(IndexInFirstSkin(SourceChannel.target.node))
       /\ IsOk(result) =>
              SampledChannel.joint_index = IndexInFirstSkin(SourceChannel.target.node)


----------------------------------------------------------------------------
(* src/src/convert/texture.rs                                              *)

\* The encoded images of the asset: those embedded in a buffer, by the
\* buffer's URI and the byte range they occupy, and those in files of their
\* own.  Every other byte range and file is not an image.
Image(variant, width, height) ==
    [variant |-> variant, width |-> width, height |-> height]

EmbeddedImages ==
    {[uri |-> "buffer0.bin", offset |-> 0, length |-> 8,
      image |-> Image("ImageRgb8", 2, 1)],
     [uri |-> "buffer0.bin", offset |-> 8, length |-> 8,
      image |-> Image("ImageLumaA8", 1, 2)],
     [uri |-> "buffer1.bin", offset |-> 0, length |-> 8,
      image |-> Image("ImageRgba8", 1, 1)]}

ImageFiles ==
    {[uri |-> "a.png", image |-> Image("ImageLuma8", 1, 1)],
     [uri |-> "b.png", image |-> Image("ImageRgb8", 2, 2)]}

\* image::load_from_memory on the bytes [offset .. offset + length] of the
\* buffer: the image encoded in exactly these bytes, or the decoder's error.
load_from_memory(uri, offset, length) ==
    LET found == {e \in EmbeddedImages :
                     e.uri = uri /\ e.offset = offset /\ e.length = length}
    IN IF found = {} THEN Err("Image")
       ELSE Ok((CHOOSE e \in found : TRUE).image)

\* image::open on base_path joined with the URI.
image_open(uri) ==
    LET found == {f \in ImageFiles : f.uri = uri}
    IN IF found = {} THEN Err("Image")
       ELSE Ok((CHOOSE f \in found : TRUE).image)

\* The matches on the sampler's filters and on the decoded image's variant.
MagFilterOf(sampler) ==
    IF sampler.mag_filter = None THEN "Nearest" ELSE sampler.mag_filter[1]

MinFilterOf(sampler) ==
    IF sampler.min_filter = None THEN "Nearest" ELSE sampler.min_filter[1]

FormatOf(img) ==
    CASE img.variant = "ImageLuma8" -> "GrayImage"
      [] img.variant = "ImageLumaA8" -> "GrayAlphaImage"
      [] img.variant = "ImageRgb8" -> "RgbImage"
      [] img.variant = "ImageRgba8" -> "RgbaImage"

\* texture.source().data() read into (uri, img): the key the texture is
\* stored under and its decoded image.
texture_source(bufs, source) ==
    IF source.kind = "View"
    THEN IF source.uri \in DOMAIN bufs
         THEN IF ~SliceInRange(bufs[source.uri].length, source.offset,
                               source.offset + source.length)
              THEN Panic
              ELSE LET img == load_from_memory(source.uri, source.offset,
                                               source.length)
                   IN IF ~IsOk(img) THEN img
                      ELSE Ok([uri |-> source.uri, img |-> img.val])
         ELSE Err("MissingImageBuffer")
    ELSE LET img == image_open(source.uri)
         IN IF ~IsOk(img) THEN img
            ELSE Ok([uri |-> source.uri, img |-> img.val])

\* The body of the loop over gltf.textures(), from the i-th texture on, with
\* the map built so far.
RECURSIVE TexturesFrom(_, _, _, _)
TexturesFrom(bufs, texture_list, i, textures) ==
    IF i > Len(texture_list) THEN Ok(textures)
    ELSE LET texture == texture_list[i]
             loaded == texture_source(bufs, texture.source)
         IN IF ~IsOk(loaded) THEN loaded
            ELSE IF loaded.val.uri \in DOMAIN textures
                 THEN Err("MultipleTexturesInBuffer")
                 ELSE TexturesFrom(bufs, texture_list, i + 1,
                          [u \in DOMAIN textures \cup {loaded.val.uri} |->
                              IF u = loaded.val.uri
                              THEN [mag_filter |-> MagFilterOf(texture.sampler),
                                    min_filter |-> MinFilterOf(texture.sampler),
                                    wrap_s_mode |-> texture.sampler.wrap_s,
                                    wrap_t_mode |-> texture.sampler.wrap_t,
                                    width |-> loaded.val.img.width,
                                    height |-> loaded.val.img.height,
                                    format |-> FormatOf(loaded.val.img),
                                    contents |-> loaded.val.img]
                              ELSE textures[u]])

texture_get(g, bufs) == TexturesFrom(bufs, g.textures, 1, <<>>)

----------------------------------------------------------------------------
(* The textures texture::get is run on.                                    *)

\* The length of the buffers the images are embedded in: room for an image
\* of 8 bytes per texture.
ImageBufferLength == 8 * MaxTextures

ImageBuffers ==
    [u \in {"buffer0.bin", "buffer1.bin"} |-> [first |-> 0, length |-> ImageBufferLength]]

\* texture.source(): images in a view of a loaded buffer (a whole encoded
\* image, bytes that are not one, a view that leaves the buffer), in a view
\* of a buffer that is not loaded, and in files that exist or do not.
ImageSources ==
    {[kind |-> "View", uri |-> u, offset |-> ol[1], length |-> ol[2]] :
        u \in {"buffer0.bin"},
        ol \in {<<0, 8>>, <<8, 8>>, <<4, 8>>, <<ImageBufferLength - 4, 8>>}}
    \cup {[kind |-> "View", uri |-> u, offset |-> 0, length |-> 8] :
            u \in {"buffer1.bin", "missing.bin"}}
    \cup {[kind |-> "Uri", uri |-> u] : u \in {"a.png", "b.png", "missing.png"}}

TextureSamplers ==
    {[mag_filter |-> None, min_filter |-> None,
      wrap_s |-> "Repeat", wrap_t |-> "Repeat"],
     [mag_filter |-> Some("Linear"), min_filter |-> Some("LinearMipmapLinear"),
      wrap_s |-> "ClampToEdge", wrap_t |-> "MirroredRepeat"]}

AssetTextures ==
    {[sampler |-> sa, source |-> so] : sa \in TextureSamplers, so \in ImageSources}

RECURSIVE TextureLists(_)
TextureLists(n) ==
    IF n = 0 THEN {<<>>}
    ELSE TextureLists(n - 1)
         \cup {Append(l, t) : l \in {l \in TextureLists(n - 1) : Len(l) = n - 1},
                              t \in AssetTextures}

InitTex ==
    /\ \E ts \in TextureLists(MaxTextures) : gltf = [textures |-> ts]
    /\ buffers = ImageBuffers
    /\ skins = <<>>
    /\ env = [overflow_checks |-> FALSE]
    /\ result = NoResult
    /\ pc = "start"

\* convert::texture::get on the asset and the loaded buffers.
GetTextures ==
    /\ pc = "start"
    /\ result' = texture_get(gltf, buffers)
    /\ pc' = "done"
    /\ UNCHANGED <<gltf, buffers, skins, env>>

NextTex == GetTextures

SpecTex == InitTex /\ [][NextTex]_vars

----------------------------------------------------------------------------
(* Properties of texture::get (SpecTex).                                   *)

\* The key a texture is stored under: the URI of the buffer of an embedded
\* image, the URI of the image otherwise.
SourceKey(i) == gltf.textures[i].source.uri

\* The first texture whose key an earlier texture has, if there is one.
Repeated == {i \in DOMAIN gltf.textures : \E j \in 1 .. i - 1 : SourceKey(j) = SourceKey(i)}

\* The embedded images whose buffer is not loaded.
Unloaded ==
    {i \in DOMAIN gltf.textures :
        /\ gltf.textures[i].source.kind = "View"
        /\ SourceKey(i) \notin DOMAIN buffers}

\* The textures before the i-th all got into the map.
StoredBefore(i) ==
    IsOk(texture_get([textures |-> SubSeq(gltf.textures, 1, i - 1)], buffers))

\* C30: texture::get keeps at most one texture per source key.  As soon as a
\* texture has the key of one in the map the call fails: with
\* MultipleTexturesInBuffer when the texture's image could be read, with an
\* error value in any case.  On success the map has as many entries as the
\* asset has textures; an embedded image whose buffer is not loaded fails
\* with MissingImageBuffer.
C30_OneTexturePerKey ==
    pc = "done" =>
        /\ IsOk(result) =>
              Cardinality(DOMAIN result.val) = Len(gltf.textures)
        /\ \A i \in Repeated :
              StoredBefore(i) =>
                  /\ result.tag = "Err"
                  /\ IsOk(texture_source(buffers, gltf.textures[i].source))
                        => IsErr(result, "MultipleTexturesInBuffer")
        /\ \A i \in Unloaded :
              StoredBefore(i) => IsErr(result, "MissingImageBuffer")


----------------------------------------------------------------------------
(* src/src/convert/mod.rs                                                  *)

\* cgmath::Matrix4, kept as its four columns; the entries are integers,
\* which f32 holds and multiplies exactly at the sizes that occur.
Matrix4_identity ==
    <<<<1, 0, 0, 0>>, <<0, 1, 0, 0>>, <<0, 0, 1, 0>>, <<0, 0, 0, 1>>>>

\* Matrix4 * Matrix4: column c of the product is lhs applied to column c of
\* rhs.
Matrix4_mul(lhs, rhs) ==
    [c \in 1 .. 4 |->
        [r \in 1 .. 4 |-> lhs[1][r] * rhs[c][1] + lhs[2][r] * rhs[c][2]
                          + lhs[3][r] * rhs[c][3] + lhs[4][r] * rhs[c][4]]]

\* mesh::get of the mesh of a node with the node's skin and transform: the
\* mesh as placed by the transform, or the error of a mesh that cannot be
\* converted.
mesh_get(mesh, skin, transform, bufs, textures) ==
    IF mesh.convertible
    THEN Ok([mesh |-> mesh.index, skin |-> skin, transform |-> transform])
    ELSE Err("MissingAttributes")

\* get_models_helper on node n with the models found so far; ChildModels is
\* its loop over node.children() from the i-th child on.
RECURSIVE get_models_helper(_, _, _, _, _, _)
RECURSIVE ChildModels(_, _, _, _, _, _, _)
get_models_helper(g, n, current_transform, models, bufs, textures) ==
    LET node == g.nodes[n + 1]
        local_transform == node.transform
        transform == Matrix4_mul(current_transform, local_transform)
        mesh == IF node.mesh = None THEN None
                ELSE Some(mesh_get(node.mesh[1], node.skin, transform, bufs, textures))
    IN IF mesh # None /\ ~IsOk(mesh[1]) THEN mesh[1]
       ELSE ChildModels(g, node.children, 1, transform,
                        IF mesh = None THEN models
                        ELSE Append(models, [mesh |-> mesh[1].val]),
                        bufs, textures)

ChildModels(g, children, i, transform, models, bufs, textures) ==
    IF i > Len(children) THEN Ok(models)
    ELSE LET found == get_models_helper(g, children[i], transform, models,
                                        bufs, textures)
         IN IF ~IsOk(found) THEN found
            ELSE ChildModels(g, children, i + 1, transform, found.val,
                             bufs, textures)

\* The loop of get over scene.nodes(), from the i-th root on.
RECURSIVE RootModels(_, _, _, _, _, _)
RootModels(g, roots, i, models, bufs, textures) ==
    IF i > Len(roots) THEN Ok(models)
    ELSE LET found == get_models_helper(g, roots[i], Matrix4_identity, models,
                                        bufs, textures)
         IN IF ~IsOk(found) THEN found
            ELSE RootModels(g, roots, i + 1, found.val, bufs, textures)

\* convert::get of an asset: the import, the textures, the default scene
\* and the models under its roots.
convert_get(g, bufs) ==
    IF ~g.importable THEN Err("Import")
    ELSE LET textures == texture_get(g, bufs)
         IN IF ~IsOk(textures) THEN textures
            ELSE IF g.default_scene = None THEN Err("NoDefaultScene")
            ELSE RootModels(g, g.default_scene[1], 1, <<>>, bufs, textures.val)

----------------------------------------------------------------------------
(* The assets convert::get is run on.                                      *)

SceneNodes == 0 .. (SmallNodes - 1)

\* Node transforms: the identity, a translation along x and a uniform scale.
Translation == <<<<1, 0, 0, 0>>, <<0, 1, 0, 0>>, <<0, 0, 1, 0>>, <<1, 0, 0, 1>>>>
Scaling == <<<<2, 0, 0, 0>>, <<0, 2, 0, 0>>, <<0, 0, 2, 0>>, <<0, 0, 0, 1>>>>

NodeTransforms ==
    {[n \in SceneNodes |-> Matrix4_identity],
     [n \in SceneNodes |-> IF n % 2 = 0 THEN Translation ELSE Scaling],
     [n \in SceneNodes |-> IF n % 2 = 0 THEN Scaling ELSE Translation]}

\* node.mesh() of every node: none, a mesh that converts, one that does not.
NodeMeshes ==
    [SceneNodes -> {None, Some([index |-> 0, convertible |-> TRUE]),
                    Some([index |-> 1, convertible |-> FALSE])}]

\* The forests over the scene's nodes, by the parent of every node.
SceneForests ==
    {f \in [SceneNodes -> SceneNodes \cup {-1}] : \A n \in SceneNodes : f[n] < n}

\* The members of a set of nodes in ascending or in descending order.
RECURSIVE Ordered(_, _)
Ordered(set, descending) ==
    IF set = {} THEN <<>>
    ELSE LET first == CHOOSE n \in set :
                          \A m \in set : IF descending THEN m <= n ELSE n <= m
         IN <<first>> \o Ordered(set \ {first}, descending)

\* The textures of the assets: none, an embedded image, one whose view
\* leaves its buffer, one in a buffer that is not loaded.
SceneTextures ==
    LET texture(uri, offset) ==
            [sampler |-> [mag_filter |-> None, min_filter |-> None,
                          wrap_s |-> "Repeat", wrap_t |-> "Repeat"],
             source |-> [kind |-> "View", uri |-> uri, offset |-> offset,
                         length |-> 8]]
    IN {<<>>, <<texture("buffer0.bin", 0)>>,
        <<texture("buffer0.bin", ImageBufferLength - 4)>>,
        <<texture("missing.bin", 0)>>}

\* The assets: a forest of nodes with the children in either order, with or
\* without a default scene, which lists all the roots or the first only;
\* and a file that cannot be imported.
Assets ==
    UNION {{[importable |-> TRUE, textures |-> ts,
             default_scene |-> ds,
             nodes |-> [k \in 1 .. SmallNodes |->
                          [transform |-> tr[k - 1], mesh |-> ms[k - 1], skin |-> None,
                           children |-> Ordered({c \in SceneNodes : f[c] = k - 1}, d)]]] :
               ts \in SceneTextures, tr \in NodeTransforms, ms \in NodeMeshes,
               ds \in {None,
                       Some(Ordered({c \in SceneNodes : f[c] = -1}, d)),
                       Some(<<0>>)}} :
           f \in SceneForests, d \in BOOLEAN}
    \cup {[importable |-> FALSE, textures |-> <<>>, default_scene |-> None,
           nodes |-> <<>>]}

InitScene ==
    /\ gltf \in Assets
    /\ buffers = ImageBuffers
    /\ skins = <<>>
    /\ env = [overflow_checks |-> FALSE]
    /\ result = NoResult
    /\ pc = "start"

\* convert::get on the asset.
GetModels ==
    /\ pc = "start"
    /\ result' = convert_get(gltf, buffers)
    /\ pc' = "done"
    /\ UNCHANGED <<gltf, buffers, skins, env>>

NextScene == GetModels

SpecScene == InitScene /\ [][NextScene]_vars

----------------------------------------------------------------------------
(* Properties of convert::get (SpecScene).                                 *)

\* The position of an entry in a list without repetitions.
PositionIn(list, n) == CHOOSE i \in DOMAIN list : list[i] = n

\* The parents of a node, and its path: the nodes from its root down to it.
ParentsOf(n) ==
    {q \in SceneNodes : \E i \in DOMAIN gltf.nodes[q + 1].children :
                            gltf.nodes[q + 1].children[i] = n}

RECURSIVE PathTo(_)
PathTo(n) ==
    IF ParentsOf(n) = {} THEN <<n>>
    ELSE Append(PathTo(CHOOSE q \in ParentsOf(n) : TRUE), n)

\* The nodes the traversal of the default scene visits.
Visited == {n \in SceneNodes : \E i \in DOMAIN gltf.default_scene[1] :
                                   gltf.default_scene[1][i] = PathTo(n)[1]}

\* Where the path to a node turns at each level: the position of its root
\* among the scene's roots, then of every node among its parent's children.
Turns(n) ==
    LET path == PathTo(n)
    IN [k \in DOMAIN path |->
           IF k = 1 THEN PositionIn(gltf.default_scene[1], path[1])
           ELSE PositionIn(gltf.nodes[path[k - 1] + 1].children, path[k])]

\* Depth-first pre-order: a node comes before the nodes below it and before
\* the nodes under a later sibling of it or of one of its ancestors.
VisitedBefore(a, b) ==
    LET ta == Turns(a)
        tb == Turns(b)
    IN \/ Len(ta) < Len(tb) /\ SubSeq(tb, 1, Len(ta)) = ta
       \/ \E k \in DOMAIN ta \cap DOMAIN tb :
             /\ SubSeq(ta, 1, k - 1) = SubSeq(tb, 1, k - 1)
             /\ ta[k] < tb[k]

\* The product of the local transforms along a path, from the root down.
RECURSIVE PathTransform(_)
PathTransform(path) ==
    IF path = <<>> THEN Matrix4_identity
    ELSE Matrix4_mul(PathTransform(SubSeq(path, 1, Len(path) - 1)),
                     gltf.nodes[path[Len(path)] + 1].transform)

\* The visited nodes that carry a mesh, in visit order.
MeshNodes == {n \in Visited : gltf.nodes[n + 1].mesh # None}

MeshNodesInOrder ==
    CHOOSE order \in [1 .. Cardinality(MeshNodes) -> MeshNodes] :
        \A i, j \in DOMAIN order : i < j => VisitedBefore(order[i], order[j])

\* C29: convert::get fails when the asset has no default scene, with
\* NoDefaultScene once its textures are read.  Otherwise the models it
\* returns are those of the visited nodes that carry a mesh, one each, in
\* depth-first pre-order, each placed by the product of the local
\* transforms on the path from its scene root down to its node.
C29_ModelsInPreOrder ==
    (pc = "done" /\ gltf.importable) =>
        /\ gltf.default_scene = None =>
              /\ result.tag = "Err"
              /\ IsOk(texture_get(gltf, buffers)) => IsErr(result, "NoDefaultScene")
        /\ (gltf.default_scene # None /\ IsOk(result)) =>
              /\ Len(result.val) = Cardinality(MeshNodes)
              /\ \A i \in DOMAIN result.val :
                    LET n == MeshNodesInOrder[i]
                    IN result.val[i].mesh =
                          [mesh |-> gltf.nodes[n + 1].mesh[1].index,
                           skin |-> gltf.nodes[n + 1].skin,
                           transform |-> PathTransform(PathTo(n))]

=============================================================================
